---- MODULE Spec2Model ----
(***************************************************************************)
(* A model of doc-chat's incremental indexer (backend/indexer.py), of its  *)
(* retriever (backend/retriever.py) and of its endpoints (backend/app.py). *)
(*                                                                         *)
(* Spec: the life of one DocumentIndexer.  The directory holds the         *)
(* eligible files of the indexed root; a file's content is one of two      *)
(* readable texts, a blank (empty or whitespace-only) text, or bytes that  *)
(* are not valid UTF-8.  A run of index_directory is a sequence of steps:  *)
(* each file is read, classified and processed, then deleted files are     *)
(* detected, then the run is finalised; model.encode may raise, which      *)
(* fails the run.  Files change only between runs.  The process may be     *)
(* started again between runs, which loads the persisted store.            *)
(*                                                                         *)
(* SpecStore: a persisted store of any content (deleted flags true, false  *)
(* or missing), loaded by the indexer and the retriever, on which search   *)
(* and get_stats are called.                                               *)
(*                                                                         *)
(* SpecMiscount: Spec with an embedding model that may return one vector  *)
(* fewer than the texts it was given.                                      *)
(*                                                                         *)
(* SpecDisk: a persist directory in which any artifact may be missing; the *)
(* store's methods are called directly, _save writes its artifacts one     *)
(* after the other, and a retriever reloads in the meantime.               *)
(*                                                                         *)
(* SpecSearch: one search on a loaded store of up to MaxVectors vectors.   *)
(*                                                                         *)
(* SpecAsk: one ask_streaming call on a loaded store of up to MaxAskStore  *)
(* chunks, up to the end or the failure of the answer stream.              *)
(*                                                                         *)
(* SpecEligible: one call of _should_index_file on a path made of a root,  *)
(* the directories below it and a file name.                               *)
(*                                                                         *)
(* SpecChat: one /ws/chat connection: messages with and without a query,   *)
(* and the answer stream of each query.                                    *)
(*                                                                         *)
(* SpecRequest: one indexing request through /ws/index or POST /api/index, *)
(* the progress messages the loop sends or never sends, and a search of    *)
(* the retriever after the request.  SpecRequestFair adds that the thread  *)
(* running index_directory keeps running.                                  *)
(*                                                                         *)
(* SpecApp: the indexing endpoints of app.py (POST /api/index on the event *)
(* loop, /ws/index in a worker thread) on the one indexer of the process;  *)
(* the calls of index_directory in progress interleave step by step.       *)
(*                                                                         *)
(* Taken from the libraries: md5 has no collisions; split_text yields at   *)
(* least one chunk for a text that is not blank.  Except in SpecDisk,      *)
(* _save writes its four artifacts as one step.                            *)
(***************************************************************************)
EXTENDS Integers, Sequences, FiniteSets, TLC

VARIABLES
    dir,            \* the eligible files under the root: path -> content, or Absent
    index,          \* DocumentIndexer.index: the vectors, in insertion order
    metadata,       \* DocumentIndexer.metadata
    texts,          \* DocumentIndexer.texts
    file_hashes,    \* DocumentIndexer.file_hashes: path -> hash
    disk,           \* the four artifacts of persist_directory
    pc,             \* where index_directory stands
    callback,       \* whether the run was given a progress_callback
    current_files,  \* index_directory's current_files
    documents,      \* the documents accumulated by _scan_and_process_files
    stats,          \* index_directory's stats
    cur,            \* the file of the loop iteration in progress
    events,         \* the messages handed to progress_callback in this run
    effects,        \* history: model.encode calls, vectors returned, _save calls and scan order of this run
    pre,            \* history: the store when the run started
    hist,           \* history: what happened since the process started or the previous run
    runs,           \* index_directory calls so far
    edits,          \* changes made to the directory so far
    r_index,        \* DocumentRetriever.index: << >> for None, <<vectors>> once loaded
    r_metadata,     \* DocumentRetriever.metadata
    r_texts,        \* DocumentRetriever.texts
    r_pc,           \* where DocumentRetriever._load_index stands
    search_ret,     \* the last search call and what it returned
    stats_ret,      \* the last get_stats call's result
    ask,            \* the ask_streaming call: its arguments, locals and what it yielded
    invocations,    \* the index_directory calls the endpoints have in progress
    chat,           \* one /ws/chat connection: its conversation_history and its exchange
    probe,          \* a path given to _should_index_file, and the answer
    ws              \* the /ws/index connection, or the POST /api/index request

storeVars == <<index, metadata, texts, file_hashes>>
runVars   == <<pc, callback, current_files, documents, stats, cur, events, effects, pre, hist, runs>>
retrVars  == <<r_index, r_metadata, r_texts, r_pc, search_ret>>
apiVars   == <<ask, invocations, chat, probe, ws>>
vars == <<dir, edits, storeVars, disk, runVars, retrVars, stats_ret, apiVars>>

---------------------------------------------------------------------------
(* Bounds of the model *)

MaxRuns == 3
MaxEdits == 3
MaxStore == 3
MaxTopK == 2

---------------------------------------------------------------------------
(* Files and their contents *)

Paths == {"docs/a.md", "docs/b.txt"}

None == "none"
Absent == "absent"
Blank == "blank"
Undecodable == "undecodable"
Readable == {"one", "two"}
Contents == Readable \cup {Blank, Undecodable}

FileName(p) == IF p = "docs/a.md" THEN "a.md" ELSE "b.txt"

Suffix(p) == IF p = "docs/a.md" THEN ".md" ELSE ".txt"

\* _get_file_hash: the md5 digest of the file's bytes, taken as collision-free.
GetFileHash(c) ==
    CASE c = "one" -> "md5-one"
      [] c = "two" -> "md5-two"
      [] c = Blank -> "md5-blank"
      [] OTHER -> "md5-undecodable"

\* text_splitter.split_text: the chunk texts of a content, in order.
\* A blank content has no chunk; "one" has one chunk and "two" has two.
SplitText(c) ==
    CASE c = "one" -> << <<"one", 0>> >>
      [] c = "two" -> << <<"two", 0>>, <<"two", 1>> >>
      [] OTHER -> << >>

\* model.encode on one text: the vector, a point on a line.
Encode(t) == IF t[1] = "one" THEN 1 ELSE 3 + t[2]

---------------------------------------------------------------------------
(* Dictionaries and lists *)

\* dict.get(key, default)
Get(m, key, default) == IF key \in DOMAIN m THEN m[key] ELSE default

\* m[key] = value on a dict
Put(m, key, value) ==
    [k \in DOMAIN m \cup {key} |-> IF k = key THEN value ELSE m[k]]

\* del m[key]
Del(m, key) == [k \in DOMAIN m \ {key} |-> m[k]]

EmptyDict == [k \in {} |-> None]

\* The paths of a set as a list (the order in which a dict yields its keys).
RECURSIVE KeyList(_)
KeyList(S) ==
    IF S = {} THEN << >>
    ELSE LET x == IF "docs/a.md" \in S THEN "docs/a.md" ELSE CHOOSE y \in S : TRUE
         IN <<x>> \o KeyList(S \ {x})

\* progress_callback(message), when a callback was given
Emit(cb, evs, msgs) == IF cb THEN evs \o msgs ELSE evs

Msg(type, file) == [type |-> type, file |-> file]

---------------------------------------------------------------------------
(* DocumentIndexer: the store *)

\* _mark_file_chunks_deleted that does not compare the file path
MarkFileChunksDeleted_AnyFile(md, p) ==
    [i \in DOMAIN md |->
        IF ~Get(md[i], "deleted", FALSE) THEN Put(md[i], "deleted", TRUE) ELSE md[i]]

\* _mark_file_chunks_deleted
MarkFileChunksDeleted(md, p) ==
    [i \in DOMAIN md |->
        IF Get(md[i], "file_path", None) = p /\ ~Get(md[i], "deleted", FALSE)
        THEN Put(md[i], "deleted", TRUE)
        ELSE md[i]]

\* _save: the four artifacts, written from the in-memory store
Save(idx, md, tx, fh) ==
    [index_faiss |-> <<idx>>, metadata_pkl |-> <<md>>,
     texts_pkl |-> <<tx>>, file_hashes_pkl |-> <<fh>>]

NoArtifacts ==
    [index_faiss |-> << >>, metadata_pkl |-> << >>,
     texts_pkl |-> << >>, file_hashes_pkl |-> << >>]

\* __init__ raises when index.faiss exists and metadata.pkl or texts.pkl does not
LoadRaises(d) ==
    Len(d.index_faiss) = 1 /\ (Len(d.metadata_pkl) = 0 \/ Len(d.texts_pkl) = 0)

\* __init__: load or create the index, then load the file hashes
LoadStore(d) ==
    [index |-> IF Len(d.index_faiss) = 1 THEN d.index_faiss[1] ELSE << >>,
     metadata |-> IF Len(d.index_faiss) = 1 THEN d.metadata_pkl[1] ELSE << >>,
     texts |-> IF Len(d.index_faiss) = 1 THEN d.texts_pkl[1] ELSE << >>,
     file_hashes |-> IF Len(d.file_hashes_pkl) = 1 THEN d.file_hashes_pkl[1] ELSE EmptyDict]

\* get_stats that counts every entry
ActiveChunks_CountsAll(md) == Len(md)

\* get_stats: the number of entries that are not deleted
RECURSIVE ActiveChunks(_)
ActiveChunks(md) ==
    IF Len(md) = 0 THEN 0
    ELSE (IF ~Get(Head(md), "deleted", FALSE) THEN 1 ELSE 0) + ActiveChunks(Tail(md))

Dimension == 384

GetStats(md) == [total_chunks |-> ActiveChunks(md), dimension |-> Dimension]

\* _get_file_status that leaves the chunks of a modified file as they are
GetFileStatus_KeepsChunks(fh, md, p, h) ==
    LET existing_hash == Get(fh, p, None) IN
    IF existing_hash = None
    THEN [status |-> "new", skip |-> FALSE, metadata |-> md]
    ELSE IF existing_hash # h
    THEN [status |-> "modified", skip |-> FALSE, metadata |-> md]
    ELSE [status |-> "unchanged", skip |-> TRUE, metadata |-> md]

\* _get_file_status that takes any tracked file for unchanged
GetFileStatus_IgnoresHash(fh, md, p, h) ==
    IF Get(fh, p, None) = None
    THEN [status |-> "new", skip |-> FALSE, metadata |-> md]
    ELSE [status |-> "unchanged", skip |-> TRUE, metadata |-> md]

\* _get_file_status: the status, whether to skip, and the metadata it leaves
GetFileStatus(fh, md, p, h) ==
    LET existing_hash == Get(fh, p, None) IN
    IF existing_hash = None
    THEN [status |-> "new", skip |-> FALSE, metadata |-> md]
    ELSE IF existing_hash # h
    THEN [status |-> "modified", skip |-> FALSE, metadata |-> MarkFileChunksDeleted(md, p)]
    ELSE [status |-> "unchanged", skip |-> TRUE, metadata |-> md]

\* _process_single_file that does not record the hash
ProcessSingleFile_NoHash(fh, p, content, h) ==
    LET chunks == SplitText(content) IN
    [documents |->
        [i \in 1..Len(chunks) |->
            [text |-> chunks[i],
             metadata |-> [file_path |-> p, file_name |-> FileName(p),
                           chunk_index |-> i - 1, hash |-> h,
                           extension |-> Suffix(p), deleted |-> FALSE]]],
     file_hashes |-> fh]

\* _process_single_file: the documents of one file, the hash record it leaves
ProcessSingleFile(fh, p, content, h) ==
    LET chunks == SplitText(content) IN
    [documents |->
        [i \in 1..Len(chunks) |->
            [text |-> chunks[i],
             metadata |-> [file_path |-> p, file_name |-> FileName(p),
                           chunk_index |-> i - 1, hash |-> h,
                           extension |-> Suffix(p), deleted |-> FALSE]]],
     file_hashes |-> Put(fh, p, h)]

\* _process_deleted_files, one key after the other
RECURSIVE ProcessDeletedKeys(_, _, _, _)
ProcessDeletedKeys(keys, fh, md, current) ==
    IF Len(keys) = 0
    THEN [file_hashes |-> fh, metadata |-> md, deleted_count |-> 0, removed |-> << >>]
    ELSE LET k == Head(keys) IN
         IF k \notin current
         THEN LET rest == ProcessDeletedKeys(Tail(keys), Del(fh, k),
                                             MarkFileChunksDeleted(md, k), current)
              IN [rest EXCEPT !.deleted_count = @ + 1, !.removed = <<k>> \o @]
         ELSE ProcessDeletedKeys(Tail(keys), fh, md, current)

\* _process_deleted_files that forgets the tracking entry but keeps the chunks
ProcessDeletedFiles_KeepsChunks(fh, md, current) ==
    [ProcessDeletedKeys(KeyList(DOMAIN fh), fh, md, current) EXCEPT !.metadata = md]

\* _process_deleted_files that marks the chunks but keeps the tracking entry
ProcessDeletedFiles_KeepsEntry(fh, md, current) ==
    [ProcessDeletedKeys(KeyList(DOMAIN fh), fh, md, current) EXCEPT !.file_hashes = fh]

ProcessDeletedFiles(fh, md, current) ==
    ProcessDeletedKeys(KeyList(DOMAIN fh), fh, md, current)

\* _add_documents_to_index that does not extend the texts
AddDocuments_NoTexts(idx, md, tx, docs) ==
    [index |-> idx \o [i \in 1..Len(docs) |-> Encode(docs[i].text)],
     metadata |-> md \o [i \in 1..Len(docs) |-> docs[i].metadata],
     texts |-> tx]

\* _add_documents_to_index that drops the deleted entries before it appends
AddDocuments_Compacts(idx, md, tx, docs) ==
    LET live == {i \in DOMAIN md : ~Get(md[i], "deleted", FALSE)}
        nth(k) == CHOOSE i \in live : Cardinality({j \in live : j < i}) = k - 1
        n == Cardinality(live)
    IN [index |-> [k \in 1..n |-> idx[nth(k)]]
                    \o [i \in 1..Len(docs) |-> Encode(docs[i].text)],
        metadata |-> [k \in 1..n |-> md[nth(k)]]
                       \o [i \in 1..Len(docs) |-> docs[i].metadata],
        texts |-> [k \in 1..n |-> tx[nth(k)]]
                    \o [i \in 1..Len(docs) |-> docs[i].text]]

\* _add_documents_to_index after the embeddings were computed: the three appends
AddDocuments(idx, md, tx, docs) ==
    [index |-> idx \o [i \in 1..Len(docs) |-> Encode(docs[i].text)],
     metadata |-> md \o [i \in 1..Len(docs) |-> docs[i].metadata],
     texts |-> tx \o [i \in 1..Len(docs) |-> docs[i].text]]

---------------------------------------------------------------------------
(* index_directory, step by step *)

ZeroStats ==
    [files |-> 0, chunks |-> 0, new |-> 0, modified |-> 0, unchanged |-> 0, deleted |-> 0]

NoFile == [file |-> None, content |-> None, hash |-> None, status |-> None, skip |-> FALSE]

NoEffects == [encoded |-> 0, vectors |-> 0, saved |-> 0, classified |-> {},
              scanned |-> << >>]

NoPre == [started |-> FALSE]

NoHist == [gap |-> "none", indexed |-> {}]

NoSearch == [called |-> FALSE]

NoStats == [called |-> FALSE]
NoAsk == [pc |-> "idle"]
NoInvocations == << >>
NoChat == [pc |-> "closed"]
NoProbe == [called |-> FALSE]
NoWs == [pc |-> "idle"]

\* The state after DocumentIndexer() and DocumentRetriever() were constructed on
\* an empty persist_directory.
IndexerInit ==
    /\ index = << >> /\ metadata = << >> /\ texts = << >> /\ file_hashes = EmptyDict
    /\ disk = NoArtifacts
    /\ pc = "idle" /\ callback = FALSE /\ current_files = {} /\ documents = << >>
    /\ stats = ZeroStats /\ cur = NoFile /\ events = << >> /\ effects = NoEffects
    /\ pre = NoPre /\ hist = NoHist /\ runs = 0 /\ edits = 0

RetrieverInit ==
    /\ r_index = << >> /\ r_metadata = << >> /\ r_texts = << >> /\ r_pc = "idle"
    /\ search_ret = NoSearch

Init ==
    /\ dir \in [Paths -> Contents \cup {Absent}]
    /\ IndexerInit
    /\ RetrieverInit
    /\ stats_ret = NoStats
    /\ ask = NoAsk /\ invocations = NoInvocations
    /\ chat = NoChat /\ probe = NoProbe /\ ws = NoWs

\* A file is created, rewritten or removed between two runs.
EditFile(p, c) ==
    /\ pc = "idle" /\ edits < MaxEdits
    /\ dir[p] # c
    /\ dir' = [dir EXCEPT ![p] = c]
    /\ edits' = edits + 1
    /\ hist' = [hist EXCEPT !.gap = IF @ = "clean" THEN "edited" ELSE @]
    /\ UNCHANGED <<storeVars, disk, pc, callback, current_files, documents, stats, cur,
                   events, effects, pre, runs, retrVars, stats_ret, apiVars>>

\* index_directory, lines 542-560: the counters start from zero, scan_start
StartRun(cb) ==
    /\ pc = "idle" /\ runs < MaxRuns
    /\ runs' = runs + 1
    /\ callback' = cb
    /\ stats' = ZeroStats
    /\ current_files' = {}
    /\ documents' = << >>
    /\ events' = Emit(cb, << >>, <<Msg("scan_start", None)>>)
    /\ effects' = NoEffects
    /\ pre' = [started |-> TRUE, index |-> index, metadata |-> metadata, texts |-> texts,
               file_hashes |-> file_hashes, disk |-> disk,
               rerun |-> hist.gap = "clean", indexed |-> hist.indexed]
    /\ pc' = "scan"
    /\ UNCHANGED <<dir, edits, storeVars, disk, cur, hist, retrVars, stats_ret, apiVars>>

\* _scan_and_process_files without the test for blank content
ReadFile_BlankIsRead(p) ==
    /\ pc = "scan" /\ dir[p] # Absent /\ p \notin current_files
    /\ current_files' = current_files \cup {p}
    /\ IF dir[p] = Undecodable
       THEN /\ events' = Emit(callback, events, <<Msg("error", FileName(p))>>)
            /\ UNCHANGED <<pc, cur>>
       ELSE /\ pc' = "classify"
            /\ cur' = [NoFile EXCEPT !.file = p, !.content = dir[p]]
            /\ UNCHANGED events
    /\ effects' = [effects EXCEPT !.scanned = Append(@, p)]
    /\ UNCHANGED <<dir, edits, storeVars, disk, callback, documents, stats,
                   pre, hist, runs, retrVars, stats_ret, apiVars>>

\* _scan_and_process_files without the except clause: a decode error leaves
\* index_directory
ReadFile_ErrorAborts(p) ==
    /\ pc = "scan" /\ dir[p] # Absent /\ p \notin current_files
    /\ current_files' = current_files \cup {p}
    /\ IF dir[p] = Undecodable
       THEN pc' = "failed" /\ UNCHANGED <<cur, events>>
       ELSE IF dir[p] = Blank
       THEN UNCHANGED <<pc, cur, events>>
       ELSE /\ pc' = "classify"
            /\ cur' = [NoFile EXCEPT !.file = p, !.content = dir[p]]
            /\ UNCHANGED events
    /\ effects' = [effects EXCEPT !.scanned = Append(@, p)]
    /\ UNCHANGED <<dir, edits, storeVars, disk, callback, documents, stats,
                   pre, hist, runs, retrVars, stats_ret, apiVars>>

\* _scan_and_process_files, lines 423-436: the next file of rglob is noted in
\* current_files and read; a decode error is reported and the loop goes on, a
\* blank content is passed over.
ReadFile(p) ==
    /\ pc = "scan" /\ dir[p] # Absent /\ p \notin current_files
    /\ current_files' = current_files \cup {p}
    /\ IF dir[p] = Undecodable
       THEN /\ events' = Emit(callback, events, <<Msg("error", FileName(p))>>)
            /\ UNCHANGED <<pc, cur>>
       ELSE IF dir[p] = Blank
       THEN UNCHANGED <<pc, cur, events>>
       ELSE /\ pc' = "classify"
            /\ cur' = [NoFile EXCEPT !.file = p, !.content = dir[p]]
            /\ UNCHANGED events
    /\ effects' = [effects EXCEPT !.scanned = Append(@, p)]
    /\ UNCHANGED <<dir, edits, storeVars, disk, callback, documents, stats,
                   pre, hist, runs, retrVars, stats_ret, apiVars>>

\* _scan_and_process_files, lines 438-458: hash, _get_file_status, the status
\* counter, and the skip of an unchanged file
ClassifyFile ==
    /\ pc = "classify"
    /\ LET h == GetFileHash(cur.content)
           r == GetFileStatus(file_hashes, metadata, cur.file, h)
       IN /\ metadata' = r.metadata
          /\ stats' = [stats EXCEPT ![r.status] = @ + 1]
          /\ effects' = [effects EXCEPT !.classified = @ \cup {cur.file}]
          /\ cur' = [cur EXCEPT !.hash = h, !.status = r.status, !.skip = r.skip]
          /\ IF r.skip
             THEN /\ events' = Emit(callback, events, <<Msg("file_skipped", FileName(cur.file))>>)
                  /\ pc' = "scan"
             ELSE /\ pc' = "process"
                  /\ UNCHANGED events
    /\ UNCHANGED <<dir, edits, index, texts, file_hashes, disk, callback, current_files,
                   documents, pre, hist, runs, retrVars, stats_ret, apiVars>>

\* _scan_and_process_files that puts the chunks of a file before those of the
\* files read earlier
ProcessFile_Prepends ==
    /\ pc = "process"
    /\ LET r == ProcessSingleFile(file_hashes, cur.file, cur.content, cur.hash)
       IN /\ file_hashes' = r.file_hashes
          /\ documents' = r.documents \o documents
          /\ stats' = [stats EXCEPT !.files = @ + 1, !.chunks = @ + Len(r.documents)]
    /\ events' = Emit(callback, events, <<Msg("file_processing", FileName(cur.file)),
                                          Msg("file_processed", FileName(cur.file))>>)
    /\ pc' = "scan"
    /\ UNCHANGED <<dir, edits, index, metadata, texts, disk, callback, current_files, cur,
                   effects, pre, hist, runs, retrVars, stats_ret, apiVars>>

\* _scan_and_process_files that counts one chunk per processed file
ProcessFile_CountsOneChunk ==
    /\ pc = "process"
    /\ LET r == ProcessSingleFile(file_hashes, cur.file, cur.content, cur.hash)
       IN /\ file_hashes' = r.file_hashes
          /\ documents' = documents \o r.documents
          /\ stats' = [stats EXCEPT !.files = @ + 1, !.chunks = @ + 1]
    /\ events' = Emit(callback, events, <<Msg("file_processing", FileName(cur.file)),
                                          Msg("file_processed", FileName(cur.file))>>)
    /\ pc' = "scan"
    /\ UNCHANGED <<dir, edits, index, metadata, texts, disk, callback, current_files, cur,
                   effects, pre, hist, runs, retrVars, stats_ret, apiVars>>

\* _scan_and_process_files, lines 460-472: _process_single_file and the counters
ProcessFile ==
    /\ pc = "process"
    /\ LET r == ProcessSingleFile(file_hashes, cur.file, cur.content, cur.hash)
       IN /\ file_hashes' = r.file_hashes
          /\ documents' = documents \o r.documents
          /\ stats' = [stats EXCEPT !.files = @ + 1, !.chunks = @ + Len(r.documents)]
    /\ events' = Emit(callback, events, <<Msg("file_processing", FileName(cur.file)),
                                          Msg("file_processed", FileName(cur.file))>>)
    /\ pc' = "scan"
    /\ UNCHANGED <<dir, edits, index, metadata, texts, disk, callback, current_files, cur,
                   effects, pre, hist, runs, retrVars, stats_ret, apiVars>>

\* index_directory that looks for deleted files only when the scan produced
\* documents
DetectDeleted_OnlyWithDocuments ==
    /\ pc = "scan"
    /\ \A p \in Paths : dir[p] # Absent => p \in current_files
    /\ LET r == IF Len(documents) > 0
                THEN ProcessDeletedFiles(file_hashes, metadata, current_files)
                ELSE [file_hashes |-> file_hashes, metadata |-> metadata,
                      deleted_count |-> 0, removed |-> << >>]
       IN /\ file_hashes' = r.file_hashes
          /\ metadata' = r.metadata
          /\ stats' = [stats EXCEPT !.deleted = r.deleted_count]
          /\ events' = Emit(callback, events,
                            [i \in 1..Len(r.removed) |-> Msg("file_deleted", FileName(r.removed[i]))])
    /\ pc' = "finalize"
    /\ cur' = NoFile
    /\ UNCHANGED <<dir, edits, index, texts, disk, callback, current_files, documents,
                   effects, pre, hist, runs, retrVars, stats_ret, apiVars>>

\* index_directory, lines 570-574, once rglob is exhausted: _process_deleted_files
DetectDeleted ==
    /\ pc = "scan"
    /\ \A p \in Paths : dir[p] # Absent => p \in current_files
    /\ LET r == ProcessDeletedFiles(file_hashes, metadata, current_files)
       IN /\ file_hashes' = r.file_hashes
          /\ metadata' = r.metadata
          /\ stats' = [stats EXCEPT !.deleted = r.deleted_count]
          /\ events' = Emit(callback, events,
                            [i \in 1..Len(r.removed) |-> Msg("file_deleted", FileName(r.removed[i]))])
    /\ pc' = "finalize"
    /\ cur' = NoFile
    /\ UNCHANGED <<dir, edits, index, texts, disk, callback, current_files, documents,
                   effects, pre, hist, runs, retrVars, stats_ret, apiVars>>

\* _add_documents_to_index that announces the save before the embeddings
FinalizeAdd_SavingFirst ==
    /\ pc = "finalize" /\ Len(documents) > 0
    /\ LET r == AddDocuments(index, metadata, texts, documents)
       IN /\ index' = r.index
          /\ metadata' = r.metadata
          /\ texts' = r.texts
          /\ disk' = Save(r.index, r.metadata, r.texts, file_hashes)
    /\ effects' = [effects EXCEPT !.encoded = @ + 1, !.vectors = Len(documents),
                                  !.saved = @ + 1]
    /\ events' = Emit(callback, events,
                      <<Msg("saving", None), Msg("embedding_start", None),
                        Msg("embedding_progress", None), Msg("embedding_complete", None),
                        Msg("save_complete", None), Msg("stats", None)>>)
    /\ pc' = "done"
    /\ UNCHANGED <<dir, edits, file_hashes, callback, current_files, documents, stats, cur,
                   pre, hist, runs, retrVars, stats_ret, apiVars>>

\* _finalize_indexing with documents, lines 501-502 and 364-400: the embeddings
\* are computed, the three lists grow, _save; then the stats message
FinalizeAdd ==
    /\ pc = "finalize" /\ Len(documents) > 0
    /\ LET r == AddDocuments(index, metadata, texts, documents)
       IN /\ index' = r.index
          /\ metadata' = r.metadata
          /\ texts' = r.texts
          /\ disk' = Save(r.index, r.metadata, r.texts, file_hashes)
    /\ effects' = [effects EXCEPT !.encoded = @ + 1, !.vectors = Len(documents),
                                  !.saved = @ + 1]
    /\ events' = Emit(callback, events,
                      <<Msg("embedding_start", None), Msg("embedding_progress", None),
                        Msg("embedding_complete", None), Msg("saving", None),
                        Msg("save_complete", None), Msg("stats", None)>>)
    /\ pc' = "done"
    /\ UNCHANGED <<dir, edits, file_hashes, callback, current_files, documents, stats, cur,
                   pre, hist, runs, retrVars, stats_ret, apiVars>>

\* _add_documents_to_index that extends the metadata before the embeddings are
\* computed
FinalizeEncodeFails_AfterExtend ==
    /\ pc = "finalize" /\ Len(documents) > 0
    /\ metadata' = metadata \o [i \in 1..Len(documents) |-> documents[i].metadata]
    /\ effects' = [effects EXCEPT !.encoded = @ + 1]
    /\ events' = Emit(callback, events, <<Msg("embedding_start", None)>>)
    /\ pc' = "failed"
    /\ UNCHANGED <<dir, edits, index, texts, file_hashes, disk, callback, current_files,
                   documents, stats, cur, pre, hist, runs, retrVars, stats_ret, apiVars>>

\* _add_documents_to_index, line 380: model.encode raises, and the exception
\* leaves index_directory
FinalizeEncodeFails ==
    /\ pc = "finalize" /\ Len(documents) > 0
    /\ effects' = [effects EXCEPT !.encoded = @ + 1]
    /\ events' = Emit(callback, events, <<Msg("embedding_start", None)>>)
    /\ pc' = "failed"
    /\ UNCHANGED <<dir, edits, storeVars, disk, callback, current_files, documents, stats,
                   cur, pre, hist, runs, retrVars, stats_ret, apiVars>>

\* _finalize_indexing without documents that never saves
FinalizeEmpty_NeverSaves ==
    /\ pc = "finalize" /\ Len(documents) = 0
    /\ events' = Emit(callback, events, <<Msg("stats", None)>>)
    /\ pc' = "done"
    /\ UNCHANGED <<dir, edits, storeVars, disk, callback, current_files, documents, stats,
                   cur, effects, pre, hist, runs, retrVars, stats_ret, apiVars>>

\* _finalize_indexing without documents that saves whether or not a file was deleted
FinalizeEmpty_AlwaysSaves ==
    /\ pc = "finalize" /\ Len(documents) = 0
    /\ disk' = Save(index, metadata, texts, file_hashes)
    /\ effects' = [effects EXCEPT !.saved = @ + 1]
    /\ events' = Emit(callback, events,
                      <<Msg("saving", None), Msg("save_complete", None), Msg("stats", None)>>)
    /\ pc' = "done"
    /\ UNCHANGED <<dir, edits, storeVars, callback, current_files, documents, stats, cur,
                   pre, hist, runs, retrVars, stats_ret, apiVars>>

\* _finalize_indexing without documents that saves under "if progress_callback"
FinalizeEmpty_SavesWhenListening ==
    /\ pc = "finalize" /\ Len(documents) = 0
    /\ IF stats.deleted > 0 /\ callback
       THEN /\ disk' = Save(index, metadata, texts, file_hashes)
            /\ effects' = [effects EXCEPT !.saved = @ + 1]
            /\ events' = Emit(callback, events,
                              <<Msg("saving", None), Msg("save_complete", None),
                                Msg("stats", None)>>)
       ELSE /\ events' = Emit(callback, events, <<Msg("stats", None)>>)
            /\ UNCHANGED <<disk, effects>>
    /\ pc' = "done"
    /\ UNCHANGED <<dir, edits, storeVars, callback, current_files, documents, stats, cur,
                   pre, hist, runs, retrVars, stats_ret, apiVars>>

\* _finalize_indexing without documents, lines 510-525: _save only when a file
\* was deleted; then the stats message
FinalizeEmpty ==
    /\ pc = "finalize" /\ Len(documents) = 0
    /\ IF stats.deleted > 0
       THEN /\ disk' = Save(index, metadata, texts, file_hashes)
            /\ effects' = [effects EXCEPT !.saved = @ + 1]
            /\ events' = Emit(callback, events,
                              <<Msg("saving", None), Msg("save_complete", None),
                                Msg("stats", None)>>)
       ELSE /\ events' = Emit(callback, events, <<Msg("stats", None)>>)
            /\ UNCHANGED <<disk, effects>>
    /\ pc' = "done"
    /\ UNCHANGED <<dir, edits, storeVars, callback, current_files, documents, stats, cur,
                   pre, hist, runs, retrVars, stats_ret, apiVars>>

\* index_directory has returned its stats (done) or raised (failed)
Return ==
    /\ pc \in {"done", "failed"}
    /\ hist' = [gap |-> "clean",
                indexed |-> IF pc = "done" THEN effects.classified ELSE {}]
    /\ pc' = "idle"
    /\ callback' = FALSE /\ current_files' = {} /\ documents' = << >>
    /\ stats' = ZeroStats /\ cur' = NoFile /\ events' = << >>
    /\ effects' = NoEffects /\ pre' = NoPre
    /\ UNCHANGED <<dir, edits, storeVars, disk, runs, retrVars, stats_ret, apiVars>>

\* The process is started again: DocumentIndexer.__init__ loads the store.
Restart ==
    /\ pc = "idle"
    /\ ~LoadRaises(disk)
    /\ LET s == LoadStore(disk)
       IN /\ index' = s.index
          /\ metadata' = s.metadata
          /\ texts' = s.texts
          /\ file_hashes' = s.file_hashes
    /\ hist' = NoHist
    /\ UNCHANGED <<dir, edits, disk, pc, callback, current_files, documents, stats, cur,
                   events, effects, pre, runs, retrVars, stats_ret, apiVars>>

Next ==
    \/ \E p \in Paths, c \in Contents \cup {Absent} : EditFile(p, c)
    \/ \E cb \in BOOLEAN : StartRun(cb)
    \/ \E p \in Paths : ReadFile(p)
    \/ ClassifyFile
    \/ ProcessFile
    \/ DetectDeleted
    \/ FinalizeAdd
    \/ FinalizeEncodeFails
    \/ FinalizeEmpty
    \/ Return
    \/ Restart

Spec == Init /\ [][Next]_vars

---------------------------------------------------------------------------
(* The indexer with an embedding model that may return one vector too few *)

\* _add_documents_to_index, lines 392-394, when model.encode returned only the
\* vectors of the first k texts: index.add takes what it is given, and the two
\* lists are extended from the documents
AddDocumentsMiscounted(idx, md, tx, docs, k) ==
    [index |-> idx \o [i \in 1..k |-> Encode(docs[i].text)],
     metadata |-> md \o [i \in 1..Len(docs) |-> docs[i].metadata],
     texts |-> tx \o [i \in 1..Len(docs) |-> docs[i].text]]

\* _finalize_indexing with documents, as FinalizeAdd, when model.encode returns
\* no vector for the last text
FinalizeAddMiscounted ==
    /\ pc = "finalize" /\ Len(documents) > 0
    /\ LET k == Len(documents) - 1
           r == AddDocumentsMiscounted(index, metadata, texts, documents, k)
       IN /\ index' = r.index
          /\ metadata' = r.metadata
          /\ texts' = r.texts
          /\ disk' = Save(r.index, r.metadata, r.texts, file_hashes)
    /\ effects' = [effects EXCEPT !.encoded = @ + 1, !.vectors = Len(documents) - 1,
                                  !.saved = @ + 1]
    /\ events' = Emit(callback, events,
                      <<Msg("embedding_start", None), Msg("embedding_progress", None),
                        Msg("embedding_complete", None), Msg("saving", None),
                        Msg("save_complete", None), Msg("stats", None)>>)
    /\ pc' = "done"
    /\ UNCHANGED <<dir, edits, file_hashes, callback, current_files, documents, stats, cur,
                   pre, hist, runs, retrVars, stats_ret, apiVars>>

MiscountNext ==
    \/ Next
    \/ FinalizeAddMiscounted

SpecMiscount == Init /\ [][MiscountNext]_vars

---------------------------------------------------------------------------
(* DocumentRetriever *)

Queries == {"low", "high"}

\* model.encode([query]): the query's vector, on the same line as the chunks'
QueryVector(q) == IF q = "low" THEN 0 ELSE 4

\* the squared L2 distance IndexFlatL2 reports
Distance(v, qv) == (v - qv) * (v - qv)

Min(a, b) == IF a <= b THEN a ELSE b

\* _load_index: the index and its two lists, or no index
LoadIndex(d) ==
    IF Len(d.index_faiss) = 1
    THEN [index |-> <<d.index_faiss[1]>>, metadata |-> d.metadata_pkl[1],
          texts |-> d.texts_pkl[1]]
    ELSE [index |-> << >>, metadata |-> << >>, texts |-> << >>]

\* index.search(query_vector, k) for 1 <= k <= ntotal: the k nearest positions by
\* ascending distance, built nearest first; the order of equally distant vectors
\* is FAISS's own, so every such order is a possible answer.
RECURSIVE NearestOf(_, _, _, _)
NearestOf(positions, idx, qv, k) ==
    IF k = 0 THEN {<< >>}
    ELSE LET nearest == {m \in positions :
                            \A o \in positions :
                                Distance(idx[m], qv) <= Distance(idx[o], qv)}
         IN UNION {{<<m>> \o r : r \in NearestOf(positions \ {m}, idx, qv, k - 1)} :
                      m \in nearest}

IndexSearch(idx, qv, k) == NearestOf(DOMAIN idx, idx, qv, k)

\* search, lines 79-95, that does not look at the deleted flag
RECURSIVE CollectSources_KeepsDeleted(_, _, _, _, _, _, _)
CollectSources_KeepsDeleted(r, idx, qv, md, tx, top_k, sources) ==
    IF Len(r) = 0 THEN sources
    ELSE IF Head(r) <= Len(md)
    THEN LET s == Append(sources, [text |-> tx[Head(r)], metadata |-> md[Head(r)],
                                   score |-> Distance(idx[Head(r)], qv)])
         IN IF Len(s) >= top_k THEN s
            ELSE CollectSources_KeepsDeleted(Tail(r), idx, qv, md, tx, top_k, s)
    ELSE CollectSources_KeepsDeleted(Tail(r), idx, qv, md, tx, top_k, sources)

\* search, lines 79-95: the walk over the positions FAISS returned
RECURSIVE CollectSources(_, _, _, _, _, _, _)
CollectSources(r, idx, qv, md, tx, top_k, sources) ==
    IF Len(r) = 0 THEN sources
    ELSE IF Head(r) <= Len(md)
    THEN IF Get(md[Head(r)], "deleted", FALSE)
         THEN CollectSources(Tail(r), idx, qv, md, tx, top_k, sources)
         ELSE LET s == Append(sources, [text |-> tx[Head(r)], metadata |-> md[Head(r)],
                                        score |-> Distance(idx[Head(r)], qv)])
              IN IF Len(s) >= top_k THEN s
                 ELSE CollectSources(Tail(r), idx, qv, md, tx, top_k, s)
    ELSE CollectSources(Tail(r), idx, qv, md, tx, top_k, sources)

\* search that asks FAISS for top_k neighbours only
SearchReturns_NoOverFetch(ri, md, tx, q, top_k) ==
    IF Len(ri) = 0
    THEN {[raised |-> FALSE, sources |-> << >>]}
    ELSE LET idx == ri[1]
             qv == QueryVector(q)
             k == Min(top_k, Len(idx))
         IN IF k = 0
            THEN {[raised |-> b, sources |-> << >>] : b \in BOOLEAN}
            ELSE {[raised |-> FALSE,
                   sources |-> CollectSources(r, idx, qv, md, tx, top_k, << >>)] :
                     r \in IndexSearch(idx, qv, k)}

\* search: what a call can return.  Without an index the answer is the empty
\* list.  With k = 0 (top_k = 0 or an index without vectors) index.search either
\* returns nothing or refuses k = 0, depending on the FAISS build.
SearchReturns(ri, md, tx, q, top_k) ==
    IF Len(ri) = 0
    THEN {[raised |-> FALSE, sources |-> << >>]}
    ELSE LET idx == ri[1]
             qv == QueryVector(q)
             k == Min(top_k * 3, Len(idx))
         IN IF k = 0
            THEN {[raised |-> b, sources |-> << >>] : b \in BOOLEAN}
            ELSE {[raised |-> FALSE,
                   sources |-> CollectSources(r, idx, qv, md, tx, top_k, << >>)] :
                     r \in IndexSearch(idx, qv, k)}

\* DocumentRetriever.search(query, top_k)
Search(q, top_k) ==
    /\ \E ret \in SearchReturns(r_index, r_metadata, r_texts, q, top_k) :
          search_ret' = [called |-> TRUE, query |-> q, top_k |-> top_k,
                         raised |-> ret.raised, sources |-> ret.sources]
    /\ UNCHANGED <<dir, edits, storeVars, disk, runVars, r_index, r_metadata, r_texts,
                   r_pc, stats_ret, apiVars>>

\* DocumentIndexer.get_stats()
CallGetStats ==
    /\ stats_ret' = [called |-> TRUE, result |-> GetStats(metadata)]
    /\ UNCHANGED <<dir, edits, storeVars, disk, runVars, retrVars, apiVars>>

---------------------------------------------------------------------------
(* A persisted store of any content, loaded by the indexer and the retriever *)

\* the chunks a store may hold: a text with the file it came from
StoredChunks ==
    { [text |-> <<"one", 0>>, file_path |-> "docs/a.md"],
      [text |-> <<"two", 0>>, file_path |-> "docs/b.txt"],
      [text |-> <<"two", 1>>, file_path |-> "docs/b.txt"] }

\* a metadata entry as _process_single_file writes it, with the deleted flag
\* true, false or (an entry written before the flag existed) missing
StoredMetadata(c, flag) ==
    LET m == [file_path |-> c.file_path, file_name |-> FileName(c.file_path),
              chunk_index |-> c.text[2], hash |-> GetFileHash(c.text[1]),
              extension |-> Suffix(c.file_path)]
    IN IF flag = "missing" THEN m ELSE Put(m, "deleted", flag = "true")

StoreInit ==
    /\ dir = [p \in Paths |-> Absent]
    /\ \E n \in 0..MaxStore :
         \E cs \in [1..n -> StoredChunks], fl \in [1..n -> {"true", "false", "missing"}] :
            \E present \in BOOLEAN :
               /\ n > 0 => present
               /\ disk = IF present
                         THEN [Save([i \in 1..n |-> Encode(cs[i].text)],
                                    [i \in 1..n |-> StoredMetadata(cs[i], fl[i])],
                                    [i \in 1..n |-> cs[i].text],
                                    EmptyDict) EXCEPT !.file_hashes_pkl = << >>]
                         ELSE NoArtifacts
    /\ LET s == LoadStore(disk)
       IN index = s.index /\ metadata = s.metadata /\ texts = s.texts
          /\ file_hashes = s.file_hashes
    /\ LET r == LoadIndex(disk)
       IN r_index = r.index /\ r_metadata = r.metadata /\ r_texts = r.texts
    /\ r_pc = "idle"
    /\ search_ret = NoSearch
    /\ stats_ret = NoStats
    /\ ask = NoAsk /\ invocations = NoInvocations
    /\ chat = NoChat /\ probe = NoProbe /\ ws = NoWs
    /\ pc = "idle" /\ callback = FALSE /\ current_files = {} /\ documents = << >>
    /\ stats = ZeroStats /\ cur = NoFile /\ events = << >> /\ effects = NoEffects
    /\ pre = NoPre /\ hist = NoHist /\ runs = 0 /\ edits = 0

StoreNext ==
    \/ \E q \in Queries, top_k \in 0..MaxTopK : Search(q, top_k)
    \/ CallGetStats

SpecStore == StoreInit /\ [][StoreNext]_vars

---------------------------------------------------------------------------
(* A retriever on a persisted store with more vectors than a search for one   *)
(* result asks FAISS for; one search is made                                  *)

MaxVectors == 4

SearchInit ==
    /\ dir = [p \in Paths |-> Absent]
    /\ \E n \in 0..MaxVectors :
         \E cs \in [1..n -> StoredChunks], fl \in [1..n -> {"true", "false"}] :
            disk = Save([i \in 1..n |-> Encode(cs[i].text)],
                        [i \in 1..n |-> StoredMetadata(cs[i], fl[i])],
                        [i \in 1..n |-> cs[i].text],
                        EmptyDict)
    /\ LET s == LoadStore(disk)
       IN index = s.index /\ metadata = s.metadata /\ texts = s.texts
          /\ file_hashes = s.file_hashes
    /\ LET r == LoadIndex(disk)
       IN r_index = r.index /\ r_metadata = r.metadata /\ r_texts = r.texts
    /\ r_pc = "idle"
    /\ search_ret = NoSearch
    /\ stats_ret = NoStats
    /\ ask = NoAsk /\ invocations = NoInvocations
    /\ chat = NoChat /\ probe = NoProbe /\ ws = NoWs
    /\ pc = "idle" /\ callback = FALSE /\ current_files = {} /\ documents = << >>
    /\ stats = ZeroStats /\ cur = NoFile /\ events = << >> /\ effects = NoEffects
    /\ pre = NoPre /\ hist = NoHist /\ runs = 0 /\ edits = 0

\* the first search on the retriever
SearchOnce(q, top_k) == ~search_ret.called /\ Search(q, top_k)

SearchNext == \E q \in Queries, top_k \in 0..MaxTopK : SearchOnce(q, top_k)

SpecSearch == SearchInit /\ [][SearchNext]_vars

---------------------------------------------------------------------------
(* ask_streaming on a retriever that loaded a persisted store of more chunks  *)
(* than it retrieves for a question                                           *)

AskTopK == 5
MaxAskStore == 6
MaxContent == 2

\* the conversation_history argument: << >> stands for None, <<h>> for the list h
Histories ==
    { << >>,
      << << >> >>,
      << <<[role |-> "user", content |-> "earlier question"],
           [role |-> "assistant", content |-> "earlier answer"]>> >> }

\* ask_streaming, lines 110-113: one block "Source: <file_name>\n<text>" per source,
\* in the order of the sources
BuildContext(sources) ==
    [i \in DOMAIN sources |->
        [file_name |-> sources[i].metadata.file_name, text |-> sources[i].text]]

\* ask_streaming, lines 116-127, that starts the turn list afresh
BuildMessages_DropsHistory(h, sources, q) ==
    <<[role |-> "user",
       content |-> [context |-> BuildContext(sources), question |-> q]]>>

\* ask_streaming, lines 116-127: conversation_history or [], with the new user
\* turn appended
BuildMessages(h, sources, q) ==
    Append(IF Len(h) = 0 THEN << >> ELSE h[1],
           [role |-> "user",
            content |-> [context |-> BuildContext(sources), question |-> q]])

\* ask_streaming, lines 130-140: the sources message
SourcesMessage(sources) ==
    [type |-> "sources",
     data |-> [i \in DOMAIN sources |->
                 [file |-> sources[i].metadata.file_name,
                  path |-> sources[i].metadata.file_path,
                  chunk |-> sources[i].metadata.chunk_index]]]

\* ask_streaming, lines 116-117: the list object the caller supplied, after
\* messages.append.  `conversation_history or []` is the caller's own list when that
\* list is not empty, and a new list when it is None or empty.
CallerList(h, messages) ==
    IF Len(h) = 0 \/ Len(h[1]) = 0 THEN h ELSE <<messages>>

\* ask_streaming up to its first yield: the search, the turn list, the sources
\* message.  An exception of search leaves the generator before it yielded.
AskStreaming(q, h) ==
    /\ ask.pc = "idle"
    /\ \E ret \in SearchReturns(r_index, r_metadata, r_texts, q, AskTopK) :
          ask' = IF ret.raised
                 THEN [pc |-> "raised", query |-> q, history |-> h, sources |-> << >>,
                       messages |-> << >>, yielded |-> << >>, caller |-> h]
                 ELSE [pc |-> "streaming", query |-> q, history |-> h,
                       sources |-> ret.sources,
                       messages |-> BuildMessages(h, ret.sources, q),
                       yielded |-> <<SourcesMessage(ret.sources)>>,
                       caller |-> CallerList(h, BuildMessages(h, ret.sources, q))]
    /\ UNCHANGED <<dir, edits, storeVars, disk, runVars, retrVars, stats_ret, invocations,
                   chat, probe, ws>>

\* ask_streaming, lines 148-152: one text of the stream is yielded
StreamText ==
    /\ ask.pc = "streaming"
    /\ Len(ask.yielded) <= MaxContent
    /\ ask' = [ask EXCEPT !.yielded = Append(@, [type |-> "content", data |-> "text"])]
    /\ UNCHANGED <<dir, edits, storeVars, disk, runVars, retrVars, stats_ret, invocations,
                   chat, probe, ws>>

\* ask_streaming, lines 143-152: the stream ends, or the client raises
StreamEnd(raises) ==
    /\ ask.pc = "streaming"
    /\ ask' = [ask EXCEPT !.pc = IF raises THEN "raised" ELSE "done"]
    /\ UNCHANGED <<dir, edits, storeVars, disk, runVars, retrVars, stats_ret, invocations,
                   chat, probe, ws>>

\* the chunk at position i of the store
AskChunk(i) ==
    CHOOSE c \in StoredChunks :
        \/ i % 3 = 1 /\ c.text = <<"one", 0>>
        \/ i % 3 = 2 /\ c.text = <<"two", 0>>
        \/ i % 3 = 0 /\ c.text = <<"two", 1>>

AskInit ==
    /\ dir = [p \in Paths |-> Absent]
    /\ \E n \in 0..MaxAskStore :
         \E fl \in [1..n -> {"true", "false"}], present \in BOOLEAN :
            /\ n > 0 => present
            /\ disk = IF present
                      THEN Save([i \in 1..n |-> Encode(AskChunk(i).text)],
                                [i \in 1..n |-> StoredMetadata(AskChunk(i), fl[i])],
                                [i \in 1..n |-> AskChunk(i).text],
                                EmptyDict)
                      ELSE NoArtifacts
    /\ LET s == LoadStore(disk)
       IN index = s.index /\ metadata = s.metadata /\ texts = s.texts
          /\ file_hashes = s.file_hashes
    /\ LET r == LoadIndex(disk)
       IN r_index = r.index /\ r_metadata = r.metadata /\ r_texts = r.texts
    /\ r_pc = "idle"
    /\ search_ret = NoSearch
    /\ stats_ret = NoStats
    /\ ask = NoAsk /\ invocations = NoInvocations
    /\ chat = NoChat /\ probe = NoProbe /\ ws = NoWs
    /\ pc = "idle" /\ callback = FALSE /\ current_files = {} /\ documents = << >>
    /\ stats = ZeroStats /\ cur = NoFile /\ events = << >> /\ effects = NoEffects
    /\ pre = NoPre /\ hist = NoHist /\ runs = 0 /\ edits = 0

AskNext ==
    \/ \E q \in Queries, h \in Histories : AskStreaming(q, h)
    \/ StreamText
    \/ \E raises \in BOOLEAN : StreamEnd(raises)

SpecAsk == AskInit /\ [][AskNext]_vars

---------------------------------------------------------------------------
(* A persist directory in any condition.  The indexer and a retriever were    *)
(* constructed on it; the store's methods are called one by one, _save writes *)
(* its artifacts one after the other, and the retriever loads in the meantime *)

MaxDisk == 2

\* the artifacts in the order in which _save writes them
Artifacts == <<"index_faiss", "metadata_pkl", "texts_pkl", "file_hashes_pkl">>

\* where _save stands: the artifact it writes next
SavePc == <<"save_index", "save_metadata", "save_texts", "save_file_hashes">>

\* the hash record that the runs which stored md left: path -> hash of its live chunks
HashRecordOf(md) ==
    LET live == {i \in DOMAIN md : ~Get(md[i], "deleted", FALSE)}
    IN [p \in {md[i].file_path : i \in live} |->
           md[CHOOSE i \in live : md[i].file_path = p].hash]

\* Any of the four artifacts may be missing, as long as the constructors do not
\* raise; the artifacts that are there were written from one store.
DiskInit ==
    /\ dir = [p \in Paths |-> Absent]
    /\ \E n \in 0..MaxDisk :
         \E cs \in [1..n -> StoredChunks] :
            \E present \in [DOMAIN NoArtifacts -> BOOLEAN] :
               LET md == [i \in 1..n |-> StoredMetadata(cs[i], "false")]
                   saved == Save([i \in 1..n |-> Encode(cs[i].text)], md,
                                 [i \in 1..n |-> cs[i].text], HashRecordOf(md))
               IN disk = [a \in DOMAIN NoArtifacts |->
                             IF present[a] THEN saved[a] ELSE << >>]
    /\ ~LoadRaises(disk)
    /\ LET s == LoadStore(disk)
       IN index = s.index /\ metadata = s.metadata /\ texts = s.texts
          /\ file_hashes = s.file_hashes
    /\ LET r == LoadIndex(disk)
       IN r_index = r.index /\ r_metadata = r.metadata /\ r_texts = r.texts
    /\ r_pc = "idle"
    /\ search_ret = NoSearch
    /\ stats_ret = NoStats
    /\ ask = NoAsk /\ invocations = NoInvocations
    /\ chat = NoChat /\ probe = NoProbe /\ ws = NoWs
    /\ pc = "idle" /\ callback = FALSE /\ current_files = {} /\ documents = << >>
    /\ stats = ZeroStats /\ cur = NoFile /\ events = << >> /\ effects = NoEffects
    /\ pre = NoPre /\ hist = NoHist /\ runs = 0 /\ edits = 0

Called == [gap |-> "called", indexed |-> {}]

\* DocumentIndexer._mark_file_chunks_deleted(p)
CallMarkDeleted(p) ==
    /\ pc = "idle"
    /\ metadata' = MarkFileChunksDeleted(metadata, p)
    /\ hist' = Called
    /\ UNCHANGED <<dir, edits, index, texts, file_hashes, disk, pc, callback, current_files,
                   documents, stats, cur, events, effects, pre, runs, retrVars, stats_ret, apiVars>>

\* DocumentIndexer._add_documents_to_index(documents), lines 379-394, with the
\* documents of one file: the three lists grow; _save is next
CallAddDocuments(p, c) ==
    /\ pc = "idle" /\ Len(metadata) < MaxDisk
    /\ LET docs == ProcessSingleFile(file_hashes, p, c, GetFileHash(c)).documents
           r == AddDocuments(index, metadata, texts, docs)
       IN /\ index' = r.index
          /\ metadata' = r.metadata
          /\ texts' = r.texts
    /\ pc' = SavePc[1]
    /\ hist' = Called
    /\ UNCHANGED <<dir, edits, file_hashes, disk, callback, current_files, documents, stats,
                   cur, events, effects, pre, runs, retrVars, stats_ret, apiVars>>

\* DocumentIndexer._save() is called
CallSave ==
    /\ pc = "idle"
    /\ pc' = SavePc[1]
    /\ hist' = Called
    /\ UNCHANGED <<dir, edits, storeVars, disk, callback, current_files, documents, stats,
                   cur, events, effects, pre, runs, retrVars, stats_ret, apiVars>>

\* _save, lines 119-125: the i-th artifact is written
WriteArtifact(i) ==
    /\ pc = SavePc[i]
    /\ disk' = [disk EXCEPT ![Artifacts[i]] =
                                Save(index, metadata, texts, file_hashes)[Artifacts[i]]]
    /\ pc' = IF i = Len(SavePc) THEN "idle" ELSE SavePc[i + 1]
    /\ UNCHANGED <<dir, edits, storeVars, callback, current_files, documents, stats, cur,
                   events, effects, pre, hist, runs, retrVars, stats_ret, apiVars>>

\* DocumentRetriever.reload() is called, once: _load_index, lines 43-45 and
\* 54-58, reads index.faiss if it exists
ReadIndex ==
    /\ r_pc = "idle"
    /\ IF Len(disk.index_faiss) = 1
       THEN /\ r_index' = disk.index_faiss
            /\ r_pc' = "metadata"
            /\ UNCHANGED <<r_metadata, r_texts>>
       ELSE /\ r_index' = << >> /\ r_metadata' = << >> /\ r_texts' = << >>
            /\ r_pc' = "loaded"
    /\ UNCHANGED <<dir, edits, storeVars, disk, runVars, search_ret, stats_ret, apiVars>>

\* _load_index, lines 47-48: metadata.pkl is read; open raises if it is missing
ReadMetadata ==
    /\ r_pc = "metadata"
    /\ IF Len(disk.metadata_pkl) = 1
       THEN r_metadata' = disk.metadata_pkl[1] /\ r_pc' = "texts"
       ELSE r_pc' = "raised" /\ UNCHANGED r_metadata
    /\ UNCHANGED <<dir, edits, storeVars, disk, runVars, r_index, r_texts, search_ret,
                   stats_ret, apiVars>>

\* _load_index, lines 50-51: texts.pkl is read; open raises if it is missing
ReadTexts ==
    /\ r_pc = "texts"
    /\ IF Len(disk.texts_pkl) = 1
       THEN r_texts' = disk.texts_pkl[1] /\ r_pc' = "loaded"
       ELSE r_pc' = "raised" /\ UNCHANGED r_texts
    /\ UNCHANGED <<dir, edits, storeVars, disk, runVars, r_index, r_metadata, search_ret,
                   stats_ret, apiVars>>

DiskNext ==
    \/ \E p \in Paths : CallMarkDeleted(p)
    \/ \E p \in Paths, c \in Readable : CallAddDocuments(p, c)
    \/ CallSave
    \/ \E i \in DOMAIN SavePc : WriteArtifact(i)
    \/ ReadIndex
    \/ ReadMetadata
    \/ ReadTexts
    \/ Restart

SpecDisk == DiskInit /\ [][DiskNext]_vars

---------------------------------------------------------------------------
(* _should_index_file on the paths that rglob yields under a root.  A path is *)
(* the list of its parts: those of the root as it was given, those of the     *)
(* directories below the root, and the file name.                             *)

ExcludedDirs ==
    {"node_modules", "bin", "obj", "packages", "dist", "build", ".git", ".vs", ".vscode",
     ".idea", "wwwroot", "__pycache__", ".pytest_cache", "venv", "env", ".env",
     "coverage", ".coverage", "htmlcov", "TestResults", "logs"}

ExcludedFiles ==
    {"package-lock.json", "yarn.lock", "packages.lock.json", "pnpm-lock.yaml",
     ".DS_Store", "Thumbs.db"}

\* the default of INDEX_FILE_TYPES
IndexFileTypes ==
    {".md", ".txt", ".py", ".cs", ".js", ".ts", ".tsx", ".json", ".yaml", ".yml"}

\* roots, as given to index_directory
Roots ==
    {<<"docs">>, <<"home", "user", "docs">>, <<"home", "user", "build", "docs">>,
     <<"srv", "logs">>}

\* directories between the root and a file
SubDirs ==
    {<< >>, <<"guide">>, <<"node_modules">>, <<"guide", "dist">>, <<".git", "hooks">>}

\* file names with their pathlib suffix
FileNames ==
    {[name |-> "readme.md", suffix |-> ".md"],
     [name |-> "README.MD", suffix |-> ".MD"],
     [name |-> "package-lock.json", suffix |-> ".json"],
     [name |-> "photo.png", suffix |-> ".png"],
     [name |-> "notes", suffix |-> ""],
     [name |-> "Guide.Txt", suffix |-> ".Txt"]}

\* str.lower on a suffix
Lower(suffix) ==
    CASE suffix = ".MD" -> ".md"
      [] suffix = ".Txt" -> ".txt"
      [] OTHER -> suffix

\* _should_index_file(filepath): the name, every part of the path, the suffix
ShouldIndexFile(parts, file) ==
    IF file.name \in ExcludedFiles THEN FALSE
    ELSE IF \E i \in DOMAIN parts : parts[i] \in ExcludedDirs THEN FALSE
    ELSE Lower(file.suffix) \in IndexFileTypes

\* _scan_and_process_files, lines 423-425, on one path of rglob under root
CallShouldIndexFile(root, sub, file) ==
    /\ ~probe.called
    /\ probe' = [called |-> TRUE, root |-> root, sub |-> sub, file |-> file,
                 result |-> ShouldIndexFile(root \o sub \o <<file.name>>, file)]
    /\ UNCHANGED <<dir, edits, storeVars, disk, runVars, retrVars, stats_ret, ask,
                   invocations, chat, ws>>

EligibleInit ==
    /\ dir = [p \in Paths |-> Absent]
    /\ IndexerInit
    /\ RetrieverInit
    /\ stats_ret = NoStats
    /\ ask = NoAsk /\ invocations = NoInvocations
    /\ chat = NoChat /\ probe = NoProbe /\ ws = NoWs

EligibleNext ==
    \E root \in Roots, sub \in SubDirs, file \in FileNames :
        CallShouldIndexFile(root, sub, file)

SpecEligible == EligibleInit /\ [][EligibleNext]_vars

---------------------------------------------------------------------------
(* The endpoints of app.py on the one DocumentIndexer of the process.  POST   *)
(* /api/index calls index_directory on the event loop; /ws/index calls it in  *)
(* a worker thread of asyncio.to_thread.  The steps of the calls in progress  *)
(* interleave; a call steps file by file and statement by statement.          *)

MaxRequests == 2

\* the store that one earlier call left after indexing the files of prev
IndexedStore(prev) ==
    LET present == {p \in Paths : prev[p] # Absent}
        keys == KeyList(present)
        DocsOf(p) == ProcessSingleFile(EmptyDict, p, prev[p], GetFileHash(prev[p])).documents
        docs == IF Len(keys) = 0 THEN << >>
                ELSE IF Len(keys) = 1 THEN DocsOf(keys[1])
                ELSE DocsOf(keys[1]) \o DocsOf(keys[2])
        a == AddDocuments(<< >>, << >>, << >>, docs)
    IN [index |-> a.index, metadata |-> a.metadata, texts |-> a.texts,
        file_hashes |-> [p \in present |-> GetFileHash(prev[p])]]

AppInit ==
    /\ dir \in [Paths -> Readable \cup {Absent}]
    /\ \E prev \in [Paths -> Readable \cup {Absent}] :
          LET s == IndexedStore(prev)
          IN /\ index = s.index /\ metadata = s.metadata /\ texts = s.texts
             /\ file_hashes = s.file_hashes
             /\ disk = IF Len(s.index) = 0 THEN NoArtifacts
                       ELSE Save(s.index, s.metadata, s.texts, s.file_hashes)
    /\ LET r == LoadIndex(disk)
       IN r_index = r.index /\ r_metadata = r.metadata /\ r_texts = r.texts
    /\ r_pc = "idle"
    /\ search_ret = NoSearch
    /\ stats_ret = NoStats
    /\ ask = NoAsk /\ invocations = NoInvocations
    /\ chat = NoChat /\ probe = NoProbe /\ ws = NoWs
    /\ pc = "idle" /\ callback = FALSE /\ current_files = {} /\ documents = << >>
    /\ stats = ZeroStats /\ cur = NoFile /\ events = << >> /\ effects = NoEffects
    /\ pre = NoPre /\ hist = NoHist /\ runs = 0 /\ edits = 0

\* the calls of index_directory that have not returned
InProgress == {i \in DOMAIN invocations : invocations[i].pc # "done"}

\* the event loop is taken by a POST handler that has not returned
LoopBusy == \E i \in InProgress : invocations[i].endpoint = "post"

\* index_documents (app.py 39-46) or websocket_index (53-88) reaches its call of
\* indexer.index_directory: nothing is asked about the calls in progress
StartRequest(endpoint) ==
    /\ Len(invocations) < MaxRequests
    /\ ~LoopBusy
    /\ invocations' = Append(invocations,
                             [endpoint |-> endpoint, pc |-> "scan", current_files |-> {},
                              documents |-> << >>, stats |-> ZeroStats,
                              embeddings |-> << >>])
    /\ UNCHANGED <<dir, edits, storeVars, disk, runVars, retrVars, stats_ret, ask, chat, probe, ws>>

\* _scan_and_process_files, one iteration of the loop in call i
ScanFile(i, p) ==
    LET inv == invocations[i]
        c == dir[p]
        h == GetFileHash(c)
        r == GetFileStatus(file_hashes, metadata, p, h)
        q == ProcessSingleFile(file_hashes, p, c, h)
        counted == [inv.stats EXCEPT ![r.status] = @ + 1]
    IN /\ inv.pc = "scan" /\ c # Absent /\ p \notin inv.current_files
       /\ IF r.skip
          THEN /\ invocations' = [invocations EXCEPT
                                     ![i].current_files = @ \cup {p},
                                     ![i].stats = counted]
               /\ UNCHANGED file_hashes
          ELSE /\ invocations' = [invocations EXCEPT
                                     ![i].current_files = @ \cup {p},
                                     ![i].documents = @ \o q.documents,
                                     ![i].stats = [counted EXCEPT
                                                     !.files = @ + 1,
                                                     !.chunks = @ + Len(q.documents)]]
               /\ file_hashes' = q.file_hashes
       /\ metadata' = r.metadata
       /\ UNCHANGED <<dir, edits, index, texts, disk, runVars, retrVars, stats_ret, ask, chat, probe, ws>>

\* index_directory, lines 570-574, in call i: _process_deleted_files
ProcessDeleted(i) ==
    LET inv == invocations[i]
        r == ProcessDeletedFiles(file_hashes, metadata, inv.current_files)
    IN /\ inv.pc = "scan"
       /\ \A p \in Paths : dir[p] # Absent => p \in inv.current_files
       /\ file_hashes' = r.file_hashes
       /\ metadata' = r.metadata
       /\ invocations' = [invocations EXCEPT
                             ![i].stats.deleted = r.deleted_count,
                             ![i].pc = IF Len(inv.documents) > 0 THEN "encode" ELSE "finalize"]
       /\ UNCHANGED <<dir, edits, index, texts, disk, runVars, retrVars, stats_ret, ask, chat, probe, ws>>

\* _add_documents_to_index, lines 379-380, in call i: the embeddings
EncodeDocuments(i) ==
    LET inv == invocations[i]
    IN /\ inv.pc = "encode"
       /\ invocations' = [invocations EXCEPT
                             ![i].embeddings = [k \in 1..Len(inv.documents) |->
                                                  Encode(inv.documents[k].text)],
                             ![i].pc = "index_add"]
       /\ UNCHANGED <<dir, edits, storeVars, disk, runVars, retrVars, stats_ret, ask, chat, probe, ws>>

\* _add_documents_to_index, line 392, in call i
IndexAdd(i) ==
    /\ invocations[i].pc = "index_add"
    /\ index' = index \o invocations[i].embeddings
    /\ invocations' = [invocations EXCEPT ![i].pc = "metadata_extend"]
    /\ UNCHANGED <<dir, edits, metadata, texts, file_hashes, disk, runVars, retrVars,
                   stats_ret, ask, chat, probe, ws>>

\* _add_documents_to_index, line 393, in call i
MetadataExtend(i) ==
    LET docs == invocations[i].documents
    IN /\ invocations[i].pc = "metadata_extend"
       /\ metadata' = metadata \o [k \in 1..Len(docs) |-> docs[k].metadata]
       /\ invocations' = [invocations EXCEPT ![i].pc = "texts_extend"]
       /\ UNCHANGED <<dir, edits, index, texts, file_hashes, disk, runVars, retrVars,
                      stats_ret, ask, chat, probe, ws>>

\* _add_documents_to_index, line 394, in call i
TextsExtend(i) ==
    LET docs == invocations[i].documents
    IN /\ invocations[i].pc = "texts_extend"
       /\ texts' = texts \o [k \in 1..Len(docs) |-> docs[k].text]
       /\ invocations' = [invocations EXCEPT ![i].pc = "save"]
       /\ UNCHANGED <<dir, edits, index, metadata, file_hashes, disk, runVars, retrVars,
                      stats_ret, ask, chat, probe, ws>>

\* _add_documents_to_index, line 397, in call i: _save, and the call returns
SaveAdded(i) ==
    /\ invocations[i].pc = "save"
    /\ disk' = Save(index, metadata, texts, file_hashes)
    /\ invocations' = [invocations EXCEPT ![i].pc = "done"]
    /\ UNCHANGED <<dir, edits, storeVars, runVars, retrVars, stats_ret, ask, chat, probe, ws>>

\* _finalize_indexing without documents, lines 510-525, in call i: _save when a
\* file was deleted, and the call returns
FinalizeWithout(i) ==
    /\ invocations[i].pc = "finalize"
    /\ disk' = IF invocations[i].stats.deleted > 0
               THEN Save(index, metadata, texts, file_hashes)
               ELSE disk
    /\ invocations' = [invocations EXCEPT ![i].pc = "done"]
    /\ UNCHANGED <<dir, edits, storeVars, runVars, retrVars, stats_ret, ask, chat, probe, ws>>

AppNext ==
    \/ \E endpoint \in {"post", "ws"} : StartRequest(endpoint)
    \/ \E i \in DOMAIN invocations, p \in Paths : ScanFile(i, p)
    \/ \E i \in DOMAIN invocations : ProcessDeleted(i)
    \/ \E i \in DOMAIN invocations : EncodeDocuments(i)
    \/ \E i \in DOMAIN invocations : IndexAdd(i)
    \/ \E i \in DOMAIN invocations : MetadataExtend(i)
    \/ \E i \in DOMAIN invocations : TextsExtend(i)
    \/ \E i \in DOMAIN invocations : SaveAdded(i)
    \/ \E i \in DOMAIN invocations : FinalizeWithout(i)

SpecApp == AppInit /\ [][AppNext]_vars

---------------------------------------------------------------------------
(* One /ws/chat connection (app.py 110-158) on the retriever of the process.  *)
(* A text is a sequence of tokens; the empty text is << >>.  The client sends *)
(* messages with a query, with an empty query, without a query, or bytes that *)
(* are not JSON; the answer stream yields any number of fragments, some of    *)
(* them possibly empty, and may raise.                                        *)

MaxMessages == 3
MaxChatStore == 1

\* the fragments the answer stream may yield
Fragments == {<< >>, <<"yes">>}

\* what the client sends: query holds the value of the key "query" when the
\* object has that key
ChatMessages ==
    {[json |-> TRUE, query |-> <<q>>] : q \in Queries \cup {""}}
        \cup {[json |-> TRUE, query |-> << >>], [json |-> FALSE, query |-> << >>]}

\* message_data.get("query")
GetQuery(m) == IF Len(m.query) = 0 THEN None ELSE m.query[1]

\* the turns appended to conversation_history, lines 128-131 and 145-149
UserTurn(q) == [role |-> "user", content |-> <<q>>]

AssistantTurn(text) == [role |-> "assistant", content |-> text]

\* conversation_history[:-1]
AllButLast(h) == SubSeq(h, 1, Len(h) - 1)

ChatInit ==
    /\ dir = [p \in Paths |-> Absent]
    /\ \E n \in 0..MaxChatStore :
         \E fl \in [1..n -> {"true", "false"}], present \in BOOLEAN :
            /\ n > 0 => present
            /\ disk = IF present
                      THEN Save([i \in 1..n |-> Encode(AskChunk(i).text)],
                                [i \in 1..n |-> StoredMetadata(AskChunk(i), fl[i])],
                                [i \in 1..n |-> AskChunk(i).text],
                                EmptyDict)
                      ELSE NoArtifacts
    /\ LET s == LoadStore(disk)
       IN index = s.index /\ metadata = s.metadata /\ texts = s.texts
          /\ file_hashes = s.file_hashes
    /\ LET r == LoadIndex(disk)
       IN r_index = r.index /\ r_metadata = r.metadata /\ r_texts = r.texts
    /\ r_pc = "idle"
    /\ search_ret = NoSearch
    /\ stats_ret = NoStats
    /\ ask = NoAsk /\ invocations = NoInvocations
    /\ chat = NoChat /\ probe = NoProbe /\ ws = NoWs
    /\ pc = "idle" /\ callback = FALSE /\ current_files = {} /\ documents = << >>
    /\ stats = ZeroStats /\ cur = NoFile /\ events = << >> /\ effects = NoEffects
    /\ pre = NoPre /\ hist = NoHist /\ runs = 0 /\ edits = 0

\* websocket_chat, lines 113-114: the connection is accepted and the history is
\* empty.  received counts the messages of the client, exchanges lists the
\* queries that are not empty with the content sent back for each, calls lists
\* the arguments of the calls of ask_streaming, sent is what was sent since the
\* last message of the client.
ChatAccept ==
    /\ chat.pc = "closed"
    /\ chat' = [pc |-> "receiving", conversation_history |-> << >>,
                assistant_message |-> << >>, calls |-> << >>, sent |-> << >>,
                received |-> 0, exchanges |-> << >>]
    /\ UNCHANGED <<dir, edits, storeVars, disk, runVars, retrVars, stats_ret, ask,
                   invocations, probe, ws>>

\* websocket_chat, lines 119-137, with the whole history handed to ask_streaming
ChatReceive_PassesWholeHistory(m) ==
    LET query == GetQuery(m)
        got == [chat EXCEPT !.received = @ + 1, !.sent = << >>]
    IN /\ chat.pc = "receiving"
       /\ chat.received < MaxMessages
       /\ IF ~m.json
          THEN chat' = [got EXCEPT !.pc = "closed_on_error"]
          ELSE IF query = None \/ query = ""
          THEN chat' = got
          ELSE LET history == Append(chat.conversation_history, UserTurn(query))
               IN \E ret \in SearchReturns(r_index, r_metadata, r_texts, query, AskTopK) :
                     chat' = [got EXCEPT
                                !.conversation_history = history,
                                !.assistant_message = << >>,
                                !.exchanges = Append(@, [query |-> query, reply |-> << >>]),
                                !.calls = Append(@, [query |-> query,
                                                     history |-> history]),
                                !.sent = IF ret.raised THEN << >>
                                         ELSE <<SourcesMessage(ret.sources)>>,
                                !.pc = IF ret.raised THEN "closed_on_error"
                                       ELSE "streaming"]
       /\ UNCHANGED <<dir, edits, storeVars, disk, runVars, retrVars, stats_ret, ask,
                      invocations, probe, ws>>

\* websocket_chat, lines 119-137, that answers a message without a query too
ChatReceive_AnswersEveryMessage(m) ==
    LET query == GetQuery(m)
        got == [chat EXCEPT !.received = @ + 1, !.sent = << >>]
    IN /\ chat.pc = "receiving"
       /\ chat.received < MaxMessages
       /\ IF ~m.json
          THEN chat' = [got EXCEPT !.pc = "closed_on_error"]
          ELSE LET history == Append(chat.conversation_history, UserTurn(query))
               IN \E ret \in SearchReturns(r_index, r_metadata, r_texts, query, AskTopK) :
                     chat' = [got EXCEPT
                                !.conversation_history = history,
                                !.assistant_message = << >>,
                                !.exchanges = IF query = None \/ query = "" THEN @
                                              ELSE Append(@, [query |-> query,
                                                              reply |-> << >>]),
                                !.calls = Append(@, [query |-> query,
                                                     history |-> AllButLast(history)]),
                                !.sent = IF ret.raised THEN << >>
                                         ELSE <<SourcesMessage(ret.sources)>>,
                                !.pc = IF ret.raised THEN "closed_on_error"
                                       ELSE "streaming"]
       /\ UNCHANGED <<dir, edits, storeVars, disk, runVars, retrVars, stats_ret, ask,
                      invocations, probe, ws>>

\* websocket_chat, lines 119-137: a message is received.  Bytes that are not JSON
\* make json.loads raise, and the handler closes the connection (155-157); a
\* missing or empty query goes back to receive_text; otherwise the user turn is
\* appended, ask_streaming is called with all turns but that one, and its first
\* step searches (which may raise) and yields the sources message, which is sent.
ChatReceive(m) ==
    LET query == GetQuery(m)
        got == [chat EXCEPT !.received = @ + 1, !.sent = << >>]
    IN /\ chat.pc = "receiving"
       /\ chat.received < MaxMessages
       /\ IF ~m.json
          THEN chat' = [got EXCEPT !.pc = "closed_on_error"]
          ELSE IF query = None \/ query = ""
          THEN chat' = got
          ELSE LET history == Append(chat.conversation_history, UserTurn(query))
               IN \E ret \in SearchReturns(r_index, r_metadata, r_texts, query, AskTopK) :
                     chat' = [got EXCEPT
                                !.conversation_history = history,
                                !.assistant_message = << >>,
                                !.exchanges = Append(@, [query |-> query, reply |-> << >>]),
                                !.calls = Append(@, [query |-> query,
                                                     history |-> AllButLast(history)]),
                                !.sent = IF ret.raised THEN << >>
                                         ELSE <<SourcesMessage(ret.sources)>>,
                                !.pc = IF ret.raised THEN "closed_on_error"
                                       ELSE "streaming"]
       /\ UNCHANGED <<dir, edits, storeVars, disk, runVars, retrVars, stats_ret, ask,
                      invocations, probe, ws>>

\* websocket_chat, lines 136-142: a content chunk is sent and its text is added
\* to assistant_message
ChatContent(text) ==
    /\ chat.pc = "streaming"
    /\ Len(chat.sent) <= MaxContent
    /\ chat' = [chat EXCEPT
                  !.sent = Append(@, [type |-> "content", data |-> text]),
                  !.assistant_message = @ \o text,
                  !.exchanges[Len(chat.exchanges)].reply = @ \o text]
    /\ UNCHANGED <<dir, edits, storeVars, disk, runVars, retrVars, stats_ret, ask,
                   invocations, probe, ws>>

\* websocket_chat, lines 144-157: the answer stream ends, the assistant turn is
\* appended when assistant_message is not empty, and done is sent; or the stream
\* raises and the handler closes the connection
ChatStreamEnd(raises) ==
    /\ chat.pc = "streaming"
    /\ chat' = IF raises
               THEN [chat EXCEPT !.pc = "closed_on_error"]
               ELSE [chat EXCEPT
                       !.conversation_history =
                           IF Len(chat.assistant_message) > 0
                           THEN Append(@, AssistantTurn(chat.assistant_message))
                           ELSE @,
                       !.sent = Append(@, [type |-> "done"]),
                       !.pc = "receiving"]
    /\ UNCHANGED <<dir, edits, storeVars, disk, runVars, retrVars, stats_ret, ask,
                   invocations, probe, ws>>

\* websocket_chat, lines 153-154: receive_text raises WebSocketDisconnect
ChatDisconnect ==
    /\ chat.pc = "receiving"
    /\ chat' = [chat EXCEPT !.pc = "disconnected"]
    /\ UNCHANGED <<dir, edits, storeVars, disk, runVars, retrVars, stats_ret, ask,
                   invocations, probe, ws>>

ChatNext ==
    \/ ChatAccept
    \/ \E m \in ChatMessages : ChatReceive(m)
    \/ \E text \in Fragments : ChatContent(text)
    \/ \E raises \in BOOLEAN : ChatStreamEnd(raises)
    \/ ChatDisconnect

SpecChat == ChatInit /\ [][ChatNext]_vars

---------------------------------------------------------------------------
(* One indexing request, through /ws/index (app.py 53-108) or through POST    *)
(* /api/index (39-46), on the indexer and the retriever of the process, and   *)
(* a search of the retriever after it.  Through /ws/index the run is made in  *)
(* a worker thread and its progress_callback schedules one send_progress      *)
(* coroutine per message on the event loop; the loop runs them when it gets   *)
(* to them, or never.  The client stays connected once it has sent its        *)
(* request.                                                                   *)

\* what the client of /ws/index sends: directory holds the value of the key
\* "directory" when the object has that key
IndexRequests ==
    {[json |-> TRUE, directory |-> <<"docs">>], [json |-> TRUE, directory |-> <<"">>],
     [json |-> TRUE, directory |-> << >>], [json |-> FALSE, directory |-> << >>]}

\* request_data.get("directory")
GetDirectory(m) == IF Len(m.directory) = 0 THEN None ELSE m.directory[1]

\* str(e) of the exception json.loads raises, and of the one model.encode raises
JsonErrorText == "Expecting value"
EncodeErrorText == "encode failed"

\* websocket_index, lines 63-66, 91-94 and 102-105: the messages of the handler
ErrorMessage == [type |-> "error", message |-> "No directory provided"]
DoneMessage == [type |-> "done"]
FatalErrorMessage(text) == [type |-> "fatal_error", message |-> text]

RequestInit == AppInit

\* websocket_index, line 56
WsAccept ==
    /\ ws.pc = "idle"
    /\ ws' = [endpoint |-> "ws", pc |-> "accepted", request |-> None, sent |-> << >>,
              delivered |-> 0]
    /\ UNCHANGED <<dir, edits, storeVars, disk, runVars, retrVars, stats_ret, ask,
                   invocations, chat, probe>>

\* websocket_index, lines 58-70 and 97-108, that goes on to index when the
\* request names no directory
WsReceive_IndexesAnyway(m) ==
    /\ ws.pc = "accepted"
    /\ ws' = IF ~m.json
             THEN [ws EXCEPT !.request = m, !.pc = "closed",
                             !.sent = <<FatalErrorMessage(JsonErrorText)>>]
             ELSE IF GetDirectory(m) \in {None, ""}
             THEN [ws EXCEPT !.request = m, !.pc = "indexing",
                             !.sent = <<ErrorMessage>>]
             ELSE [ws EXCEPT !.request = m, !.pc = "indexing"]
    /\ UNCHANGED <<dir, edits, storeVars, disk, runVars, retrVars, stats_ret, ask,
                   invocations, chat, probe>>

\* websocket_index, lines 58-70 and 97-108: the request is received.  Bytes that
\* are not JSON make json.loads raise: fatal_error is sent and the connection
\* closed.  Without a directory the error message is sent and the connection
\* closed.  Otherwise the handler goes on to asyncio.to_thread.
WsReceive(m) ==
    /\ ws.pc = "accepted"
    /\ ws' = IF ~m.json
             THEN [ws EXCEPT !.request = m, !.pc = "closed",
                             !.sent = <<FatalErrorMessage(JsonErrorText)>>]
             ELSE IF GetDirectory(m) \in {None, ""}
             THEN [ws EXCEPT !.request = m, !.pc = "closed", !.sent = <<ErrorMessage>>]
             ELSE [ws EXCEPT !.request = m, !.pc = "indexing"]
    /\ UNCHANGED <<dir, edits, storeVars, disk, runVars, retrVars, stats_ret, ask,
                   invocations, chat, probe>>

\* websocket_index, lines 96-97: receive_text raises WebSocketDisconnect
WsDisconnect ==
    /\ ws.pc = "accepted"
    /\ ws' = [ws EXCEPT !.pc = "disconnected"]
    /\ UNCHANGED <<dir, edits, storeVars, disk, runVars, retrVars, stats_ret, ask,
                   invocations, chat, probe>>

\* index_documents, lines 39-42: a request body with a directory has arrived
PostIndex ==
    /\ ws.pc = "idle"
    /\ ws' = [endpoint |-> "post", pc |-> "indexing",
              request |-> [json |-> TRUE, directory |-> <<"docs">>], sent |-> << >>,
              delivered |-> 0]
    /\ UNCHANGED <<dir, edits, storeVars, disk, runVars, retrVars, stats_ret, ask,
                   invocations, chat, probe>>

\* the handler has reached its call of index_directory, which has not returned
Indexing == ws.pc = "indexing" /\ pc \notin {"done", "failed"}

\* a progress_callback that waits for the message to be sent
CallbackReturns_WhenDelivered == ws.endpoint = "ws" => ws.delivered = Len(events)

\* progress_callback, lines 80-82: run_coroutine_threadsafe hands the coroutine
\* to the loop and returns a future, which nobody waits for
CallbackReturns == TRUE

\* run_indexing, line 84, and index_documents, line 42: index_directory is
\* called, with a progress_callback through /ws/index and without one
\* through POST
CallIndexDirectory ==
    /\ Indexing /\ runs = 0
    /\ StartRun(ws.endpoint = "ws")

\* the event loop runs a scheduled send_progress coroutine (lines 76-77): the
\* message is sent
DeliverProgress ==
    /\ ws.pc = "indexing" /\ ws.endpoint = "ws"
    /\ ws.delivered < Len(events)
    /\ ws' = [ws EXCEPT !.delivered = @ + 1,
                        !.sent = Append(@, events[ws.delivered + 1])]
    /\ UNCHANGED <<dir, edits, storeVars, disk, runVars, retrVars, stats_ret, ask,
                   invocations, chat, probe>>

\* websocket_index, lines 87-94, that sends done however the call ended
WsDone_HoweverItEnded ==
    /\ ws.pc = "indexing" /\ ws.endpoint = "ws"
    /\ pc \in {"done", "failed"}
    /\ ws' = [ws EXCEPT !.pc = "finished", !.sent = Append(@, DoneMessage)]
    /\ UNCHANGED <<dir, edits, storeVars, disk, runVars, retrVars, stats_ret, ask,
                   invocations, chat, probe>>

\* websocket_index, lines 87-94: to_thread has returned the stats, done is sent
\* and the handler returns
WsDone ==
    /\ ws.pc = "indexing" /\ ws.endpoint = "ws"
    /\ pc = "done"
    /\ ws' = [ws EXCEPT !.pc = "finished", !.sent = Append(@, DoneMessage)]
    /\ UNCHANGED <<dir, edits, storeVars, disk, runVars, retrVars, stats_ret, ask,
                   invocations, chat, probe>>

\* websocket_index, lines 98-108: to_thread has raised what index_directory
\* raised; fatal_error is sent with its text and the connection is closed
WsFatalError ==
    /\ ws.pc = "indexing" /\ ws.endpoint = "ws"
    /\ pc = "failed"
    /\ ws' = [ws EXCEPT !.pc = "closed",
                        !.sent = Append(@, FatalErrorMessage(EncodeErrorText))]
    /\ UNCHANGED <<dir, edits, storeVars, disk, runVars, retrVars, stats_ret, ask,
                   invocations, chat, probe>>

\* index_documents, lines 43-46: the stats are returned, or a 500 with the text
\* of the exception
PostReturn ==
    /\ ws.pc = "indexing" /\ ws.endpoint = "post"
    /\ pc \in {"done", "failed"}
    /\ ws' = [ws EXCEPT
                !.pc = "responded",
                !.sent = IF pc = "done"
                         THEN <<[status |-> 200, success |-> TRUE, stats |-> stats]>>
                         ELSE <<[status |-> 500, detail |-> EncodeErrorText]>>]
    /\ UNCHANGED <<dir, edits, storeVars, disk, runVars, retrVars, stats_ret, ask,
                   invocations, chat, probe>>

\* the handler of the request has ended
Handled == ws.pc \in {"finished", "closed", "responded"}

\* ask_streaming, line 107, on a later /ws/chat message: the retriever of the
\* process searches.  Nothing in app.py calls retriever.reload().
SearchAfterRequest(q) ==
    /\ Handled /\ ~search_ret.called
    /\ Search(q, AskTopK)

\* the steps of index_directory, in the worker thread or on the loop
WorkerStep ==
    \/ CallIndexDirectory
    \/ \E p \in Paths : Indexing /\ CallbackReturns /\ ReadFile(p)
    \/ Indexing /\ CallbackReturns /\ ClassifyFile
    \/ Indexing /\ CallbackReturns /\ ProcessFile
    \/ Indexing /\ CallbackReturns /\ DetectDeleted
    \/ Indexing /\ CallbackReturns /\ FinalizeAdd
    \/ Indexing /\ CallbackReturns /\ FinalizeEncodeFails
    \/ Indexing /\ CallbackReturns /\ FinalizeEmpty

RequestNext ==
    \/ WsAccept
    \/ \E m \in IndexRequests : WsReceive(m)
    \/ WsDisconnect
    \/ PostIndex
    \/ CallIndexDirectory
    \/ \E p \in Paths : Indexing /\ CallbackReturns /\ ReadFile(p)
    \/ Indexing /\ CallbackReturns /\ ClassifyFile
    \/ Indexing /\ CallbackReturns /\ ProcessFile
    \/ Indexing /\ CallbackReturns /\ DetectDeleted
    \/ Indexing /\ CallbackReturns /\ FinalizeAdd
    \/ Indexing /\ CallbackReturns /\ FinalizeEncodeFails
    \/ Indexing /\ CallbackReturns /\ FinalizeEmpty
    \/ DeliverProgress
    \/ WsDone
    \/ WsFatalError
    \/ PostReturn
    \/ \E q \in Queries : SearchAfterRequest(q)

SpecRequest == RequestInit /\ [][RequestNext]_vars

\* The worker thread, and the event loop inside the POST handler, run
\* index_directory without waiting for anything; the handler goes on when the
\* call has ended.  Nothing is assumed about when the loop runs a scheduled
\* send_progress.
SpecRequestFair ==
    /\ SpecRequest
    /\ WF_vars(WorkerStep)
    /\ WF_vars(WsDone \/ WsFatalError \/ PostReturn)

---------------------------------------------------------------------------
(* Properties of the indexer, under Spec *)

Deleted(m) == "deleted" \in DOMAIN m /\ m.deleted = TRUE

\* positions of the chunks of file p, and those among them that are not deleted
ChunksOf(md, p) == {i \in DOMAIN md : md[i].file_path = p}

LiveChunksOf(md, p) == {i \in ChunksOf(md, p) : ~Deleted(md[i])}

Completed == pc = "done"

\* C1: whatever loads and runs happened, completed or failed, the index holds as
\* many vectors as there are metadata entries and as there are texts.
C1_Alignment == Len(index) = Len(metadata) /\ Len(metadata) = Len(texts)

\* a completed run has appended to a store that already held chunks, after an
\* earlier run failed or the store was loaded again
C1_Witness ==
    /\ Completed /\ Len(pre.index) > 0 /\ Len(index) > Len(pre.index)
    /\ hist.gap = "none" /\ runs = 3

\* C3: the chunks of one file that are not deleted all carry the same content
\* hash, and no two of them have the same chunk_index.
C3_OneLiveGeneration ==
    \A p \in Paths : \A i, j \in LiveChunksOf(metadata, p) :
        /\ metadata[i].hash = metadata[j].hash
        /\ (i # j => metadata[i].chunk_index # metadata[j].chunk_index)

\* a modified file was indexed again: it has deleted chunks of the old hash and
\* two live chunks of the new one
C3_Witness ==
    \E p \in Paths :
        /\ Cardinality(LiveChunksOf(metadata, p)) = 2
        /\ \E i \in ChunksOf(metadata, p), j \in LiveChunksOf(metadata, p) :
              Deleted(metadata[i]) /\ metadata[i].hash # metadata[j].hash

\* C4: every chunk that is not deleted has its file_path in the hash record, with
\* the hash the chunk's metadata carries.
C4_LiveChunkTracked ==
    \A i \in DOMAIN metadata :
        ~Deleted(metadata[i]) =>
            /\ metadata[i].file_path \in DOMAIN file_hashes
            /\ file_hashes[metadata[i].file_path] = metadata[i].hash

\* one file is live and tracked while another one was removed and untracked
C4_Witness ==
    /\ \E i \in DOMAIN metadata : ~Deleted(metadata[i])
    /\ \E i \in DOMAIN metadata :
          Deleted(metadata[i]) /\ metadata[i].file_path \notin DOMAIN file_hashes

\* what the chunker makes of a content that is read: nothing when it is blank
\* or cannot be decoded
ChunksFrom(c) == IF c \in Readable THEN Len(SplitText(c)) ELSE 0

\* file p was indexed by the previous, completed run and has live chunks, and its
\* content now hashes to another value
ModifiedSinceIndexed(p) ==
    /\ pre.started /\ p \in pre.indexed
    /\ LiveChunksOf(pre.metadata, p) # {}
    /\ dir[p] # Absent
    /\ GetFileHash(dir[p]) # pre.file_hashes[p]

ReindexedAsModified(p) ==
    /\ \A i \in ChunksOf(pre.metadata, p) : Deleted(metadata[i])
    /\ \A i \in LiveChunksOf(metadata, p) : metadata[i].hash = GetFileHash(dir[p])
    /\ Cardinality(LiveChunksOf(metadata, p)) = ChunksFrom(dir[p])

\* C5: after a completed run, a file that was indexed before and whose content
\* differs (whatever the new content: readable, blank or undecodable) has all its
\* earlier chunks deleted, and its live chunks are exactly those of the new
\* content, carrying the new hash.
C5_ModifiedFileReindexed ==
    Completed => \A p \in Paths : ModifiedSinceIndexed(p) => ReindexedAsModified(p)

\* C5 for a new content that is readable and not blank (this holds)
C5_ReadableContentReindexed ==
    Completed => \A p \in Paths :
        (ModifiedSinceIndexed(p) /\ dir[p] \in Readable) => ReindexedAsModified(p)

C5_ReadableWitness ==
    Completed /\ \E p \in Paths : ModifiedSinceIndexed(p) /\ dir[p] \in Readable

\* C6: after a run, a file of the hash record that is absent from the directory
\* has all its chunks deleted and no entry in the hash record, and the stats of
\* a completed run count exactly the entries removed (one at least).
C6_DeletionDetected ==
    LET gone == {p \in DOMAIN pre.file_hashes : dir[p] = Absent} IN
    (pc \in {"done", "failed"}) =>
        /\ \A p \in gone :
              /\ \A i \in ChunksOf(metadata, p) : Deleted(metadata[i])
              /\ p \notin DOMAIN file_hashes
        /\ Completed =>
              /\ stats.deleted = Cardinality(DOMAIN pre.file_hashes \ DOMAIN file_hashes)
              /\ (gone # {} => stats.deleted >= 1)

\* a completed run found a removed file that had live chunks
C6_Witness ==
    /\ Completed
    /\ \E p \in DOMAIN pre.file_hashes :
          dir[p] = Absent /\ LiveChunksOf(pre.metadata, p) # {}

\* C7, as stated: the second of two runs in a row over unchanged files returns
\* new = 0, modified = 0 and unchanged = the number of eligible files.
C7_UnchangedCountsEligible ==
    (Completed /\ pre.rerun) =>
        /\ stats.new = 0 /\ stats.modified = 0
        /\ stats.unchanged = Cardinality({p \in Paths : dir[p] # Absent})

\* C7, amended: unchanged = the number of eligible files whose content is
\* readable as text and not blank.
C7_UnchangedCountsReadable ==
    (Completed /\ pre.rerun) =>
        /\ stats.new = 0 /\ stats.modified = 0
        /\ stats.unchanged = Cardinality({p \in Paths : dir[p] \in Readable})

\* a second run in a row over a readable file and a blank one
C7_Witness ==
    /\ Completed /\ pre.rerun /\ stats.unchanged = 1
    /\ \E p \in Paths : dir[p] = Blank

HasEvent(type) == \E i \in DOMAIN events : events[i].type = type

\* C8: a completed run that classified no file new or modified and found no file
\* deleted leaves the store as it was, computes no embedding and saves nothing.
C8_UnchangedRunIsNoOp ==
    (Completed /\ stats.new = 0 /\ stats.modified = 0 /\ stats.deleted = 0) =>
        /\ index = pre.index /\ metadata = pre.metadata /\ texts = pre.texts
        /\ file_hashes = pre.file_hashes
        /\ effects.encoded = 0 /\ effects.saved = 0 /\ disk = pre.disk
        /\ ~HasEvent("saving") /\ ~HasEvent("save_complete")
        /\ ~HasEvent("embedding_start")

\* a run with a listener over a store with deleted and live chunks, all files unchanged
C8_Witness ==
    /\ Completed /\ callback /\ stats.unchanged >= 1
    /\ stats.new = 0 /\ stats.modified = 0 /\ stats.deleted = 0
    /\ \E i, j \in DOMAIN metadata : Deleted(metadata[i]) /\ ~Deleted(metadata[j])

\* C10: _get_file_status answers new exactly when the path has no recorded hash,
\* modified exactly when the recorded hash differs, unchanged (skip) exactly when
\* it is the same; it never touches the hash record, the vectors or the texts, and
\* changes the metadata only for a modified file, whose chunks it marks deleted.
C10_GetFileStatus ==
    [][pc = "classify" =>
        LET p == cur.file
            h == cur'.hash
            s == cur'.status
            k == cur'.skip
        IN /\ h = GetFileHash(cur.content)
           /\ s \in {"new", "modified", "unchanged"}
           /\ ((s = "new" /\ ~k) <=> p \notin DOMAIN file_hashes)
           /\ ((s = "modified" /\ ~k) <=> (p \in DOMAIN file_hashes /\ file_hashes[p] # h))
           /\ ((s = "unchanged" /\ k) <=> (p \in DOMAIN file_hashes /\ file_hashes[p] = h))
           /\ (k <=> pc' = "scan") /\ (~k <=> pc' = "process")
           /\ file_hashes' = file_hashes /\ index' = index /\ texts' = texts /\ disk' = disk
           /\ (s # "modified" => metadata' = metadata)
           /\ (s = "modified" =>
                 /\ Len(metadata') = Len(metadata)
                 /\ \A i \in DOMAIN metadata :
                       IF metadata[i].file_path = p
                       THEN Deleted(metadata'[i])
                       ELSE metadata'[i] = metadata[i])
    ]_vars

\* a modified file was classified and its live chunks were marked deleted
C10_Witness ==
    /\ pc = "process" /\ cur.status = "modified"
    /\ LiveChunksOf(pre.metadata, cur.file) # {}
    /\ LiveChunksOf(metadata, cur.file) = {}

\* C13: when model.encode raises during a run, the exception leaves
\* index_directory, the run has appended no vector, no metadata entry and no
\* text, _save was not called, and the store holds no metadata entry without
\* its vector.
C13_EncodeFailureAppendsNothing ==
    (pre.started /\ effects.encoded = 1 /\ effects.vectors = 0) =>
        /\ pc = "failed"
        /\ index = pre.index /\ texts = pre.texts
        /\ Len(metadata) = Len(pre.metadata)
        /\ effects.saved = 0 /\ disk = pre.disk
        /\ Len(metadata) = Len(index)

\* model.encode raised in a run on a store that already held chunks
C13_Witness ==
    /\ pc = "failed" /\ effects.encoded = 1 /\ effects.vectors = 0
    /\ Len(documents) > 0 /\ Len(pre.index) > 0

\* C14: between runs, whatever runs completed or failed before, every entry
\* path -> h of the hash record has at least one chunk in the store with that
\* file path and that hash.
C14_HashEntryHasChunks ==
    pc = "idle" =>
        \A p \in DOMAIN file_hashes :
            \E i \in DOMAIN metadata :
                metadata[i].file_path = p /\ metadata[i].hash = file_hashes[p]

\* the messages of a type about a file that the listener was handed in this run
EventsAbout(type, p) ==
    {i \in DOMAIN events : events[i].type = type /\ events[i].file = FileName(p)}

\* the files of the directory that can be read as text and are not blank
ReadableFiles == {q \in Paths : dir[q] \in Readable}

\* C15: a file that cannot be decoded is reported by one error message naming
\* it, counts in no statistics counter, keeps its hash-record entry and its
\* stored chunks as they were, and does not end the run: every file with
\* readable content is classified and, unless unchanged, processed, and the run
\* raises only if model.encode does.
C15_ReadErrorIsLocal ==
    \A p \in Paths :
        (pre.started /\ p \in current_files /\ dir[p] = Undecodable) =>
            /\ Cardinality(EventsAbout("error", p)) = (IF callback THEN 1 ELSE 0)
            /\ p \notin effects.classified
            /\ stats.new + stats.modified + stats.unchanged = Cardinality(effects.classified)
            /\ Get(file_hashes, p, None) = Get(pre.file_hashes, p, None)
            /\ ChunksOf(metadata, p) = ChunksOf(pre.metadata, p)
            /\ \A i \in ChunksOf(metadata, p) : metadata[i] = pre.metadata[i]
            /\ pc = "failed" => effects.encoded = 1
            /\ pc \in {"finalize", "done", "failed"} =>
                  /\ effects.classified = ReadableFiles
                  /\ stats.files = stats.new + stats.modified
                  /\ \A q \in ReadableFiles : Get(file_hashes, q, None) = GetFileHash(dir[q])

\* a completed run with a listener met an undecodable file that had stored
\* chunks, and indexed another file
C15_Witness ==
    /\ pc = "done" /\ callback
    /\ \E p, q \in Paths :
          /\ dir[p] = Undecodable /\ p \in current_files
          /\ ChunksOf(pre.metadata, p) # {}
          /\ q \in effects.classified /\ stats.files = 1 /\ stats.chunks > 0

\* C16: a file whose content is empty or whitespace only is skipped: the run
\* makes no chunk of it, gives it no hash-record entry (the record is for this
\* path as the run found it), hands the listener no message about it, and counts
\* it in none of stats.files, new, modified and unchanged.
C16_BlankFileSkipped ==
    \A p \in Paths :
        (pre.started /\ p \in current_files /\ dir[p] = Blank) =>
            /\ \A i \in DOMAIN documents : documents[i].metadata.file_path # p
            /\ ChunksOf(metadata, p) = ChunksOf(pre.metadata, p)
            /\ Get(file_hashes, p, None) = Get(pre.file_hashes, p, None)
            /\ Get(file_hashes, p, None) # GetFileHash(Blank)
            /\ \A i \in DOMAIN events : events[i].file # FileName(p)
            /\ p \notin effects.classified
            /\ stats.new + stats.modified + stats.unchanged = Cardinality(effects.classified)
            /\ stats.files <= Cardinality(effects.classified)

\* a completed run with a listener passed over a blank file, which has no
\* hash-record entry, and indexed another file
C16_Witness ==
    /\ pc = "done" /\ callback
    /\ stats.files = 1 /\ stats.chunks > 0
    /\ \E p \in Paths :
          dir[p] = Blank /\ p \in current_files /\ p \notin DOMAIN file_hashes

\* the files the run found tracked and did not meet in its scan
DeletedFiles == DOMAIN pre.file_hashes \ current_files

\* C17: a run that produced no chunk and detected at least one deleted file
\* still persists: _save is called and writes all four artifacts from the
\* store in memory, the listener's last three messages are saving,
\* save_complete and stats in this order, and the persisted metadata and hash
\* record hold the deletions.
C17_DeletionsArePersisted ==
    (pc = "done" /\ Len(documents) = 0 /\ stats.deleted > 0) =>
        /\ effects.saved = 1
        /\ \A a \in DOMAIN disk : Len(disk[a]) = 1
        /\ disk = Save(index, metadata, texts, file_hashes)
        /\ DeletedFiles # {}
        /\ \A p \in DeletedFiles :
              /\ p \notin DOMAIN disk.file_hashes_pkl[1]
              /\ \A i \in ChunksOf(disk.metadata_pkl[1], p) :
                    Deleted(disk.metadata_pkl[1][i])
        /\ callback =>
              /\ Len(events) >= 3
              /\ SubSeq(events, Len(events) - 2, Len(events)) =
                    <<Msg("saving", None), Msg("save_complete", None), Msg("stats", None)>>
              /\ \A i \in 1..(Len(events) - 3) :
                    events[i].type \notin {"saving", "save_complete", "stats"}

\* a completed run with a listener made no chunk and found a file deleted whose
\* chunks are now persisted as deleted
C17_Witness ==
    /\ pc = "done" /\ callback /\ Len(documents) = 0 /\ stats.deleted > 0
    /\ \E p \in DeletedFiles : ChunksOf(disk.metadata_pkl[1], p) # {}

\* the phase of a run to which an event belongs
Phase(type) ==
    CASE type = "scan_start" -> 0
      [] type \in {"file_skipped", "file_processing", "file_processed", "error"} -> 1
      [] type = "file_deleted" -> 2
      [] type = "embedding_start" -> 3
      [] type = "embedding_progress" -> 4
      [] type = "embedding_complete" -> 5
      [] type = "saving" -> 6
      [] type = "save_complete" -> 7
      [] type = "stats" -> 8

EventsOfType(type) == {i \in DOMAIN events : events[i].type = type}

\* C25: in a completed run with a progress callback scan_start is the first
\* event; the file_skipped, file_processing, file_processed and error events
\* follow; then the file_deleted events; then, if chunks were accumulated,
\* embedding_start, embedding_progress, embedding_complete, saving and
\* save_complete in this order; one stats event is last.  A file_processing
\* event is directly followed by the file_processed event of the same file.
C25_EventOrder ==
    (Completed /\ callback) =>
        /\ EventsOfType("scan_start") = {1}
        /\ EventsOfType("stats") = {Len(events)}
        /\ \A i, j \in DOMAIN events :
              i < j => Phase(events[i].type) <= Phase(events[j].type)
        /\ Len(documents) > 0 =>
              /\ \A t \in {"embedding_start", "embedding_complete", "saving",
                            "save_complete"} : Cardinality(EventsOfType(t)) = 1
              /\ EventsOfType("embedding_progress") # {}
        /\ Len(documents) = 0 =>
              \A t \in {"embedding_start", "embedding_progress", "embedding_complete"} :
                 EventsOfType(t) = {}
        /\ \A i \in EventsOfType("file_processing") :
              /\ i < Len(events)
              /\ events[i + 1] = Msg("file_processed", events[i].file)

\* a run with a callback that processed a file, found a file deleted and
\* stored two chunks has completed
C25_Witness ==
    /\ Completed /\ callback
    /\ Len(documents) = 2
    /\ HasEvent("file_processing") /\ HasEvent("file_deleted")
    /\ HasEvent("save_complete")

\* The scan loop of _scan_and_process_files over the files in the given order,
\* as a function of the store it starts from; no callback takes part.
RECURSIVE ScanOutcome(_, _, _, _, _)
ScanOutcome(order, fh, md, docs, st) ==
    IF Len(order) = 0
    THEN [file_hashes |-> fh, metadata |-> md, documents |-> docs, stats |-> st]
    ELSE LET p == Head(order)
             c == dir[p]
         IN IF c \in {Undecodable, Blank}
            THEN ScanOutcome(Tail(order), fh, md, docs, st)
            ELSE LET h == GetFileHash(c)
                     r == GetFileStatus(fh, md, p, h)
                     counted == [st EXCEPT ![r.status] = @ + 1]
                     q == ProcessSingleFile(fh, p, c, h)
                 IN IF r.skip
                    THEN ScanOutcome(Tail(order), fh, r.metadata, docs, counted)
                    ELSE ScanOutcome(Tail(order), q.file_hashes, r.metadata,
                                     docs \o q.documents,
                                     [counted EXCEPT !.files = @ + 1,
                                                     !.chunks = @ + Len(q.documents)])

\* The stats and the store with which a run over the files in the given order
\* completes, as a function of the store it starts from.
RunOutcome(order) ==
    LET s == ScanOutcome(order, pre.file_hashes, pre.metadata, << >>, ZeroStats)
        d == ProcessDeletedFiles(s.file_hashes, s.metadata,
                                 {order[i] : i \in DOMAIN order})
        a == AddDocuments(pre.index, d.metadata, pre.texts, s.documents)
        st == [s.stats EXCEPT !.deleted = d.deleted_count]
    IN IF Len(s.documents) > 0
       THEN [stats |-> st, index |-> a.index, metadata |-> a.metadata, texts |-> a.texts,
             file_hashes |-> d.file_hashes,
             disk |-> Save(a.index, a.metadata, a.texts, d.file_hashes)]
       ELSE [stats |-> st, index |-> pre.index, metadata |-> d.metadata,
             texts |-> pre.texts, file_hashes |-> d.file_hashes,
             disk |-> IF d.deleted_count > 0
                      THEN Save(pre.index, d.metadata, pre.texts, d.file_hashes)
                      ELSE pre.disk]

\* C26: the stats a completed run returns and the store it leaves, in memory
\* and persisted, are determined by the store it started from, the directory
\* and the scan order; they are the same with and without a progress callback.
C26_ListenerIndependence ==
    Completed =>
        [stats |-> stats, index |-> index, metadata |-> metadata, texts |-> texts,
         file_hashes |-> file_hashes, disk |-> disk] = RunOutcome(effects.scanned)

\* a run without a callback on a store with chunks found a file deleted and
\* nothing to add, and has completed
C26_Witness ==
    /\ Completed /\ ~callback
    /\ stats.deleted > 0 /\ Len(documents) = 0
    /\ Len(pre.metadata) > 0
    /\ disk # pre.disk

\* position of a file in the scan order of the run
ScanPosition(p) == CHOOSE k \in DOMAIN effects.scanned : effects.scanned[k] = p

\* C30: the chunks a completed run appended are in the order in which the run
\* scanned their files, and the chunks of one file carry chunk_index 0, 1, ...,
\* n-1 at consecutive positions.
C30_AppendOrder ==
    Completed =>
        LET first == Len(pre.metadata) + 1
            appended == first..Len(metadata)
        IN /\ Len(metadata) = Len(pre.metadata) + Len(documents)
           /\ \A i, j \in appended :
                 i < j => ScanPosition(metadata[i].file_path)
                            <= ScanPosition(metadata[j].file_path)
           /\ \A i \in appended :
                 /\ metadata[i].chunk_index =
                       Cardinality({j \in first..(i - 1) :
                                       metadata[j].file_path = metadata[i].file_path})
                 /\ texts[i] = SplitText(dir[metadata[i].file_path])[metadata[i].chunk_index + 1]

\* a run appended the chunk of one file and the two chunks of the other
C30_Witness ==
    /\ Completed
    /\ Len(metadata) = Len(pre.metadata) + 3
    /\ Len(pre.metadata) > 0
    /\ metadata[Len(metadata)].chunk_index = 0

\* the store (idx2, md2, tx2) holds every entry of (idx, md, tx) at its position,
\* with the same vector, text and metadata fields, and every tombstone
Grows(idx, md, tx, idx2, md2, tx2) ==
    /\ Len(idx2) >= Len(idx) /\ Len(md2) >= Len(md) /\ Len(tx2) >= Len(tx)
    /\ \A i \in DOMAIN idx : idx2[i] = idx[i]
    /\ \A i \in DOMAIN tx : tx2[i] = tx[i]
    /\ \A i \in DOMAIN md :
          /\ \A f \in DOMAIN md[i] \ {"deleted"} :
                f \in DOMAIN md2[i] /\ md2[i][f] = md[i][f]
          /\ Deleted(md[i]) => Deleted(md2[i])

\* C29: no step of a run removes or changes an entry of the in-memory store or
\* clears a deleted flag, and no step at all does so to the persisted store:
\* the numbers of vectors, metadata entries and texts never decrease, vector,
\* text and metadata fields other than deleted stay, and deleted stays true.
C29_StorageGrows ==
    [][/\ \/ UNCHANGED <<index, metadata, texts>>
          \/ Restart
          \/ Grows(index, metadata, texts, index', metadata', texts')
       /\ \/ UNCHANGED disk
          \/ LET old == LoadStore(disk)
                 new == LoadStore(disk')
             IN Grows(old.index, old.metadata, old.texts,
                      new.index, new.metadata, new.texts)]_vars

\* a second run appended chunks to a store that held a deleted entry
C29_Witness ==
    /\ Completed /\ runs >= 2
    /\ Len(metadata) > Len(pre.metadata)
    /\ \E i \in DOMAIN pre.metadata : Deleted(pre.metadata[i])
    /\ disk = Save(index, metadata, texts, file_hashes)

\* C31: the counters of a run start from zero; in the stats of a completed run
\* files is new + modified, chunks is the number of chunks the run appended to
\* the store, and deleted is the number of hash-record entries the run removed.
C31_StatsIdentities ==
    /\ (pc = "scan" /\ effects.scanned = << >>) => stats = ZeroStats
    /\ Completed =>
          /\ stats.files = stats.new + stats.modified
          /\ stats.chunks = Len(metadata) - Len(pre.metadata)
          /\ stats.chunks = Len(index) - Len(pre.index)
          /\ stats.deleted = Cardinality(DOMAIN pre.file_hashes \ DOMAIN file_hashes)

\* a later run processed the file of two chunks, skipped nothing and removed
\* one entry of the hash record
C31_Witness ==
    /\ Completed /\ runs >= 2
    /\ stats.chunks = 2 /\ stats.files = 1
    /\ stats.deleted = 1

\* the in-memory store as __init__ would load it
InMemory ==
    [index |-> index, metadata |-> metadata, texts |-> texts, file_hashes |-> file_hashes]

\* C37: at the end of every completed run a fresh load of the persist directory
\* yields the vectors, metadata, texts and hash record the indexer holds in memory.
C37_PersistedIsInMemory == Completed => LoadStore(disk) = InMemory

\* C38: a run that fails leaves the in-memory store as it was before the run:
\* the vectors, the texts, the metadata with its deleted flags and the hash record.
C38_FailedRunChangesNothing ==
    pc = "failed" =>
        /\ index = pre.index /\ texts = pre.texts
        /\ metadata = pre.metadata
        /\ file_hashes = pre.file_hashes

\* the eligible files that rglob enumerates under the root of the run
Enumerated == {p \in Paths : dir[p] # Absent}

\* C33: after a completed run every key of the hash record is a path the run
\* enumerated under its root, and every path recorded before the run and not
\* enumerated in it has no entry any more and all its chunks marked deleted.
C33_HashRecordKeysEnumerated ==
    Completed =>
        /\ current_files = Enumerated
        /\ DOMAIN file_hashes \subseteq Enumerated
        /\ \A p \in DOMAIN pre.file_hashes \ Enumerated :
              /\ p \notin DOMAIN file_hashes
              /\ \A i \in ChunksOf(metadata, p) : Deleted(metadata[i])

\* a run over a root under which nothing is enumerated completed on a store
\* that recorded two files with live chunks
C33_Witness ==
    /\ Completed
    /\ Enumerated = {}
    /\ DOMAIN pre.file_hashes = Paths
    /\ \A p \in Paths : LiveChunksOf(pre.metadata, p) # {}
    /\ file_hashes = EmptyDict

---------------------------------------------------------------------------
(* Properties of a loaded store, under SpecStore *)

\* C2: whatever the retriever holds, whatever the query and top_k, no returned
\* entry has metadata with deleted = true.
C2_NoDeletedReturned ==
    search_ret.called =>
        \A i \in DOMAIN search_ret.sources : ~Deleted(search_ret.sources[i].metadata)

\* a search returned an entry although a nearer (or as near) stored chunk is deleted
C2_Witness ==
    /\ search_ret.called /\ Len(search_ret.sources) > 0
    /\ \E i \in DOMAIN r_metadata :
          /\ Deleted(r_metadata[i])
          /\ Distance(r_index[1][i], QueryVector(search_ret.query))
                <= search_ret.sources[1].score

\* C9: get_stats().total_chunks is the number of metadata entries whose deleted
\* flag is false or missing; an entry with deleted = true is not counted.
C9_TotalChunksIsActive ==
    stats_ret.called =>
        stats_ret.result.total_chunks =
            Cardinality({i \in DOMAIN metadata :
                            "deleted" \notin DOMAIN metadata[i] \/ metadata[i].deleted = FALSE})

\* get_stats was called on a store with a deleted entry, a live one and one
\* without the flag
C9_Witness ==
    /\ stats_ret.called
    /\ \E i, j, k \in DOMAIN metadata :
          /\ Deleted(metadata[i])
          /\ "deleted" \in DOMAIN metadata[j] /\ ~metadata[j].deleted
          /\ "deleted" \notin DOMAIN metadata[k]

C22_EmptySearchNeverRaises ==
    (/\ search_ret.called /\ search_ret.top_k >= 1
     /\ \/ Len(r_index) = 0
        \/ Len(r_index[1]) = 0
        \/ \A i \in DOMAIN r_metadata : Deleted(r_metadata[i])) =>
        ~search_ret.raised /\ search_ret.sources = << >>

---------------------------------------------------------------------------
(* Properties of one search, under SpecSearch *)

\* positions of the entries that are not deleted
ActiveOf(md) == {i \in DOMAIN md : ~Deleted(md[i])}

\* the sources are n entries that are not deleted, by ascending distance, and no
\* other entry that is not deleted is nearer than one of them
NearestActive(sources, n) ==
    LET idx == r_index[1]
        qv == QueryVector(search_ret.query)
    IN /\ Len(sources) = n
       /\ \E pos \in [1..n -> ActiveOf(r_metadata)] :
             /\ \A i, j \in 1..n : i < j =>
                   /\ pos[i] # pos[j]
                   /\ Distance(idx[pos[i]], qv) <= Distance(idx[pos[j]], qv)
             /\ \A i \in 1..n :
                   sources[i] = [text |-> r_texts[pos[i]], metadata |-> r_metadata[pos[i]],
                                 score |-> Distance(idx[pos[i]], qv)]
             /\ \A m \in ActiveOf(r_metadata) \ {pos[i] : i \in 1..n} :
                   \A i \in 1..n : Distance(idx[pos[i]], qv) <= Distance(idx[m], qv)

\* C21: on a store of vectors with A entries that are not deleted and any number
\* of deleted ones, search for top_k >= 1 results returns exactly min(top_k, A)
\* results, the nearest entries that are not deleted, by ascending distance.
C21_SearchReturnsNearestActive ==
    (/\ search_ret.called /\ search_ret.top_k >= 1
     /\ Len(r_index) = 1 /\ Len(r_index[1]) > 0) =>
        /\ ~search_ret.raised
        /\ NearestActive(search_ret.sources,
                         Min(search_ret.top_k, Cardinality(ActiveOf(r_metadata))))

---------------------------------------------------------------------------
(* Properties of ask_streaming, under SpecAsk *)

\* the chunks announced by a sources message are those of the context blocks
Announces(msg, context) ==
    /\ Len(msg.data) = Len(context)
    /\ \A i \in DOMAIN context :
          \E m \in DOMAIN r_metadata :
             /\ msg.data[i] = [file |-> r_metadata[m].file_name,
                               path |-> r_metadata[m].file_path,
                               chunk |-> r_metadata[m].chunk_index]
             /\ context[i] = [file_name |-> r_metadata[m].file_name, text |-> r_texts[m]]

\* C23: every ask_streaming call yields one sources message, as its first item;
\* every later item is content; the announced sources are, in the same order,
\* the chunks whose text is in the context of the prompt, at most 5.
C23_SourcesFirst ==
    ask.pc # "idle" =>
        /\ Len(ask.yielded) >= 1
        /\ ask.yielded[1].type = "sources"
        /\ \A i \in 2..Len(ask.yielded) : ask.yielded[i].type = "content"
        /\ Len(ask.yielded[1].data) <= AskTopK
        /\ Announces(ask.yielded[1], ask.messages[Len(ask.messages)].content.context)

\* C24: the turn list handed to the generation is the supplied history in its
\* order followed by one new user turn that holds the context and the query.
C24_HistoryThenQuery ==
    ask.pc \in {"streaming", "done"} =>
        LET h == IF Len(ask.history) = 0 THEN << >> ELSE ask.history[1]
            last == ask.messages[Len(ask.messages)]
        IN /\ Len(ask.messages) = Len(h) + 1
           /\ SubSeq(ask.messages, 1, Len(h)) = h
           /\ last.role = "user"
           /\ last.content.question = ask.query
           /\ last.content.context =
                 [i \in DOMAIN ask.sources |->
                     [file_name |-> ask.sources[i].metadata.file_name,
                      text |-> ask.sources[i].text]]

\* a call with a history of two turns and three sources has streamed to its end
C24_Witness ==
    /\ ask.pc = "done"
    /\ Len(ask.history) = 1 /\ Len(ask.history[1]) = 2
    /\ Len(ask.sources) = 3
    /\ Len(ask.yielded) > 1

\* C40: after a call of ask_streaming the list the caller supplied as
\* conversation_history has the length and the elements it had before the call,
\* whether it was empty or not.
C40_HistoryUntouched ==
    ask.pc # "idle" => ask.caller = ask.history

---------------------------------------------------------------------------
(* Properties of the file filter, under SpecEligible *)

\* C32: a file under the root is eligible exactly when its name is not an
\* excluded file name, no directory between the root and the file is in the
\* block-list, and its suffix in lower case is an allowed one; where the root
\* lies plays no part.
C32_EligibleUnderAnyRoot ==
    probe.called =>
        (probe.result <=>
            /\ probe.file.name \notin ExcludedFiles
            /\ \A i \in DOMAIN probe.sub : probe.sub[i] \notin ExcludedDirs
            /\ Lower(probe.file.suffix) \in IndexFileTypes)

---------------------------------------------------------------------------
(* Properties of the chat endpoint, under SpecChat *)

RECURSIVE TurnsOf(_, _)
\* the turns of the exchanges in the order exchanged: the query, then the reply;
\* with blanks = FALSE a reply that is empty has no turn
TurnsOf(exchanges, blanks) ==
    IF Len(exchanges) = 0 THEN << >>
    ELSE LET x == exchanges[Len(exchanges)]
         IN TurnsOf(AllButLast(exchanges), blanks)
              \o <<UserTurn(x.query)>>
              \o (IF blanks \/ Len(x.reply) > 0 THEN <<AssistantTurn(x.reply)>>
                  ELSE << >>)

\* no message without a query called ask_streaming, and between two exchanges
\* the history holds the turns of the exchanges so far
SkippedMessagesChangeNothing(blanks) ==
    /\ Len(chat.calls) = Len(chat.exchanges)
    /\ \A n \in DOMAIN chat.calls : chat.calls[n].query = chat.exchanges[n].query
    /\ chat.pc = "receiving" =>
          chat.conversation_history = TurnsOf(chat.exchanges, blanks)

\* C34 as stated: the history handed to ask_streaming for the n-th query that is
\* not empty holds, in the order exchanged, every earlier such query, each
\* followed by the assistant's reply to it, and not the n-th query; a message
\* with a missing or empty query calls nothing and leaves the history alone.
C34_HistoryHoldsEveryReply ==
    chat.pc # "closed" =>
        /\ \A n \in DOMAIN chat.calls :
              chat.calls[n].history = TurnsOf(SubSeq(chat.exchanges, 1, n - 1), TRUE)
        /\ SkippedMessagesChangeNothing(TRUE)

\* C34, amended: the history handed to ask_streaming for the n-th query that is
\* not empty holds, in the order exchanged, every earlier such query, each
\* followed by the assistant's reply to it when that reply was not empty, and
\* not the n-th query; a message with a missing or empty query calls nothing and
\* leaves the history alone.
C34_HistoryHoldsNonEmptyReplies ==
    chat.pc # "closed" =>
        /\ \A n \in DOMAIN chat.calls :
              chat.calls[n].history = TurnsOf(SubSeq(chat.exchanges, 1, n - 1), FALSE)
        /\ SkippedMessagesChangeNothing(FALSE)

\* a third message is answered after one answered query and one message without
\* a query: the history handed over holds the first query and its reply
C34_Witness ==
    /\ chat.pc = "streaming" /\ chat.received = 3
    /\ Len(chat.calls) = 2
    /\ Len(chat.calls[2].history) = 2
    /\ chat.calls[2].history[2].role = "assistant"

---------------------------------------------------------------------------
(* Properties of an indexing request, under SpecRequest *)

\* the messages of the given type that were sent
SentOfType(type) == {i \in DOMAIN ws.sent : ws.sent[i].type = type}

\* C35: on /ws/index, a request without a directory gets one error message and
\* the connection is closed with the indexer never called; when index_directory
\* has raised and the handler has ended, the last message sent is a fatal_error
\* with the text of the exception; done is never sent for a call that raised, and
\* whenever done was sent index_directory had returned its stats.
C35_ErrorsOfIndexing ==
    (ws.pc \notin {"idle", "accepted", "disconnected"} /\ ws.endpoint = "ws") =>
        /\ (ws.request.json /\ GetDirectory(ws.request) \in {None, ""}) =>
              /\ ws.sent = <<ErrorMessage>>
              /\ ws.pc = "closed"
              /\ pc = "idle" /\ runs = 0
        /\ pc = "failed" =>
              /\ SentOfType("done") = {}
              /\ Handled =>
                    /\ ws.pc = "closed"
                    /\ ws.sent[Len(ws.sent)] = FatalErrorMessage(EncodeErrorText)
                    /\ Cardinality(SentOfType("fatal_error")) = 1
        /\ SentOfType("done") # {} => pc = "done"

\* index_directory raised after some of its progress messages were sent, and the
\* handler has sent fatal_error and closed
C35_Witness ==
    /\ ws.pc = "closed" /\ ws.endpoint = "ws" /\ pc = "failed"
    /\ Len(ws.sent) > 2
    /\ ws.sent[Len(ws.sent)].type = "fatal_error"

\* C36: a call of index_directory made for a request always reaches its end,
\* with the stats returned or with a failure, whether the loop ever sends any of
\* the progress messages it scheduled or not; and a call that has returned has
\* left the stats and the store that the starting store, the directory and the
\* scan order determine, with a callback (/ws/index) and without one (POST).
C36_IndexingNeverStalls ==
    /\ [](Indexing => <>(pc \in {"done", "failed"}))
    /\ [](pc = "done" =>
            [stats |-> stats, index |-> index, metadata |-> metadata, texts |-> texts,
             file_hashes |-> file_hashes, disk |-> disk] = RunOutcome(effects.scanned))

\* a run with a callback has returned its stats and done was sent, while none of
\* the progress messages it scheduled has been sent
C36_Witness ==
    /\ ws.pc = "finished" /\ ws.endpoint = "ws" /\ pc = "done"
    /\ ws.delivered = 0 /\ Len(events) > 2
    /\ stats.chunks > 0

\* C39: a search of the app's retriever made after an indexing request has
\* completed returns what a search over the state that run persisted returns.
C39_SearchUsesPersistedState ==
    (search_ret.called /\ pc = "done") =>
        LET r == LoadIndex(disk)
        IN \E ret \in SearchReturns(r.index, r.metadata, r.texts, search_ret.query,
                                    search_ret.top_k) :
              /\ ret.raised = search_ret.raised
              /\ ret.sources = search_ret.sources

---------------------------------------------------------------------------
(* Properties of the endpoints, under SpecApp *)

\* C27: whatever POST /api/index and /ws/index requests arrive, at most one
\* call of index_directory on the shared indexer is in progress at any time.
C27_OneRunAtATime == Cardinality(InProgress) <= 1

\* C28: when no call is in progress the three lists have one length, and at
\* every position the vector is the embedding of the text and the metadata is
\* the metadata produced with that text.
C28_ListsAligned ==
    InProgress = {} =>
        /\ Len(index) = Len(texts) /\ Len(metadata) = Len(texts)
        /\ \A i \in DOMAIN texts :
              /\ index[i] = Encode(texts[i])
              /\ metadata[i].hash = GetFileHash(texts[i][1])
              /\ metadata[i].chunk_index = texts[i][2]

---------------------------------------------------------------------------
(* Properties of the indexer with a miscounting embedding model, under SpecMiscount *)

\* C12: an append in which model.encode returned a number of vectors other than
\* the number of documents fails as a whole: the run raises, none of the index,
\* the metadata and the texts has grown, and nothing was written to the
\* persist directory.
C12_MiscountedAppendFails ==
    (pre.started /\ effects.encoded = 1 /\ effects.vectors # Len(documents)) =>
        /\ pc = "failed"
        /\ Len(index) = Len(pre.index)
        /\ Len(metadata) = Len(pre.metadata)
        /\ Len(texts) = Len(pre.texts)
        /\ effects.saved = 0 /\ disk = pre.disk

---------------------------------------------------------------------------
(* Properties of the store's methods, under SpecDisk *)

\* C11: _mark_file_chunks_deleted(p) sets deleted = true on every metadata entry
\* of file p and changes nothing else in it, leaves the entries of every other
\* file, the texts, the vectors, the hash record and the artifacts as they are,
\* and a second call with the same path changes nothing.
C11_MarkFileChunksDeleted ==
    [][\A p \in Paths :
          CallMarkDeleted(p) =>
             /\ DOMAIN metadata' = DOMAIN metadata
             /\ \A i \in DOMAIN metadata :
                   IF metadata[i].file_path = p
                   THEN /\ Deleted(metadata'[i])
                        /\ DOMAIN metadata'[i] = DOMAIN metadata[i] \cup {"deleted"}
                        /\ \A k \in DOMAIN metadata[i] \ {"deleted"} :
                              metadata'[i][k] = metadata[i][k]
                   ELSE metadata'[i] = metadata[i]
             /\ index' = index /\ texts' = texts /\ file_hashes' = file_hashes
             /\ disk' = disk
             /\ MarkFileChunksDeleted(metadata', p) = metadata']_vars

\* a call has marked the chunks of one file, which the persisted metadata still
\* shows live, next to a live chunk of another file
C11_Witness ==
    /\ pc = "idle" /\ hist = Called
    /\ Len(disk.metadata_pkl) = 1
    /\ \E i, j \in DOMAIN metadata :
          /\ Deleted(metadata[i])
          /\ i \in DOMAIN disk.metadata_pkl[1] /\ ~Deleted(disk.metadata_pkl[1][i])
          /\ metadata[j].file_path # metadata[i].file_path
          /\ ~Deleted(metadata[j])

\* C18: a retriever that loads the store while _save is in progress ends with
\* artifacts of one write: as many vectors as metadata entries and texts, each
\* vector and each metadata entry being those of the text at its position.
C18_LoadSeesOneWrite ==
    (r_pc = "loaded" /\ Len(r_index) = 1) =>
        /\ Len(r_index[1]) = Len(r_metadata)
        /\ Len(r_metadata) = Len(r_texts)
        /\ \A i \in DOMAIN r_texts :
              /\ r_index[1][i] = Encode(r_texts[i])
              /\ r_metadata[i].hash = GetFileHash(r_texts[i][1])

\* C19: an indexer constructed on a persist directory without index.faiss,
\* whatever other artifacts the directory holds, has an empty store: no vector,
\* no metadata entry, no text and an empty hash record.
C19_NoIndexMeansEmptyStore ==
    (pc = "idle" /\ hist = NoHist /\ Len(disk.index_faiss) = 0) =>
        /\ index = << >> /\ metadata = << >> /\ texts = << >>
        /\ file_hashes = EmptyDict

====
